---- MODULE Spec2Model ----
(***************************************************************************)
(* token-analyzer: the usage aggregator (Aggregate), the clarity engine    *)
(* (ComputeClarity), the coaching tip selector and the UsageTotals         *)
(* accumulator, as state machines.                                         *)
(*                                                                         *)
(* Conventions.                                                            *)
(*  - A Go string is a sequence of one-character strings, so that prefix,  *)
(*    substring, lower-casing and path operations are computed.            *)
(*  - A time.Time is a number of hours since the zero time; 0 is the zero  *)
(*    time (IsZero).  A UTC calendar date is the day number ts \div 24;    *)
(*    Format("2006-01-02") is injective and order preserving on it.        *)
(*  - A float64 that is a ratio is an exact fraction [num, den], den > 0.  *)
(*  - CostUSD is counted in units of 10^-8 USD (rates are in 1/100 USD per *)
(*    million tokens), which makes every cost of the pricing table exact.  *)
(***************************************************************************)
EXTENDS Integers, Sequences, FiniteSets, TLC

(***************************************************************************)
(* Bounds of the model.                                                    *)
(***************************************************************************)
\* Lines read by one Aggregate pass, over all files.
MaxLines == 2
\* Files opened by one Aggregate pass.
MaxFiles == 2
\* Hours that can pass between Aggregate's two readings of the wall clock.
MaxElapsed == 1
\* Add calls applied to the stand-alone accumulator.
MaxAdds == 4
\* Files and records one ComputeClarity call goes through.
MaxClarFiles == 2

MaxClarRecs == 4
\* Lines of a file handed to ParseFile on its own, and files parsed in a row.
MaxParseLines == 3

MaxParseCalls == 2
\* /api/report requests one handler goroutine serves.
MaxRequests == 2

(***************************************************************************)
(* Generic helpers.                                                        *)
(***************************************************************************)
Min(a, b) == IF a <= b THEN a ELSE b

Max(a, b) == IF a >= b THEN a ELSE b

RECURSIVE SumOver(_, _)
\* Sum of f[x] over the finite set S of elements of DOMAIN f.
SumOver(f, S) ==
    IF S = {} THEN 0
    ELSE LET x == CHOOSE y \in S : TRUE IN f[x] + SumOver(f, S \ {x})

RECURSIVE SumSeq(_)
SumSeq(s) == IF s = <<>> THEN 0 ELSE Head(s) + SumSeq(Tail(s))

\* The set of the elements of a sequence.
Range(s) == {s[i] : i \in DOMAIN s}

\* All orderings of a finite set, as sequences without repetition.
Perms(S) ==
    {s \in [1..Cardinality(S) -> S] : \A i, j \in DOMAIN s : i # j => s[i] # s[j]}

\* Fractions.
Frac(n, d) == [num |-> n, den |-> d]

FracLe(a, b) == a.num * b.den <= b.num * a.den

FracLt(a, b) == a.num * b.den < b.num * a.den

FracEq(a, b) == a.num * b.den = b.num * a.den

FracAdd(a, b) == Frac(a.num * b.den + b.num * a.den, a.den * b.den)

FracSub(a, b) == Frac(a.num * b.den - b.num * a.den, a.den * b.den)

FracMul(a, b) == Frac(a.num * b.num, a.den * b.den)

FracDivInt(a, n) == Frac(a.num, a.den * n)

FracZero == Frac(0, 1)

RECURSIVE Gcd(_, _)
\* The greatest common divisor of two naturals.
Gcd(a, b) == IF b = 0 THEN a ELSE Gcd(b, a % b)

\* The fraction in lowest terms, so that equal values are equal records.
FracNorm(f) ==
    LET g == Gcd(IF f.num < 0 THEN 0 - f.num ELSE f.num, f.den)
    IN Frac(f.num \div g, f.den \div g)

FracOne == Frac(1, 1)

(***************************************************************************)
(* Strings: strings.HasPrefix, strings.TrimPrefix, strings.Contains,       *)
(* toLower, containsCI, slugToPath, filepath.Base.                         *)
(***************************************************************************)
UpperLetters == <<"A", "B", "C", "D", "E", "F", "G", "H", "I", "J", "K", "L", "M", "N", "O", "P", "Q", "R", "S", "T", "U", "V", "W", "X", "Y", "Z">>

LowerLetters == <<"a", "b", "c", "d", "e", "f", "g", "h", "i", "j", "k", "l", "m", "n", "o", "p", "q", "r", "s", "t", "u", "v", "w", "x", "y", "z">>

\* toLower's loop body: c >= 'A' && c <= 'Z' gives c + 32.
LowerOf ==
    [c \in {UpperLetters[i] : i \in DOMAIN UpperLetters} |->
        LowerLetters[CHOOSE i \in DOMAIN UpperLetters : UpperLetters[i] = c]]

LowerChar(c) == IF c \in DOMAIN LowerOf THEN LowerOf[c] ELSE c

toLower(s) == [i \in 1..Len(s) |-> LowerChar(s[i])]

HasPrefix(s, p) == Len(s) >= Len(p) /\ SubSeq(s, 1, Len(p)) = p

TrimPrefix(s, p) == IF HasPrefix(s, p) THEN SubSeq(s, Len(p) + 1, Len(s)) ELSE s

\* strings.Contains: the empty string is contained in every string.
Contains(s, sub) ==
    \E i \in 0..(Len(s) - Len(sub)) : SubSeq(s, i + 1, i + Len(sub)) = sub

containsCI(s, sub) ==
    IF sub = <<>> THEN TRUE
    ELSE /\ Len(s) >= Len(sub)
         /\ \E i \in 0..(Len(s) - Len(sub)) :
                SubSeq(toLower(s), i + 1, i + Len(sub)) = toLower(sub)

slugToPath(slug) ==
    IF slug = <<>> THEN <<>> ELSE <<"/">> \o TrimPrefix(slug, <<"-">>)

RECURSIVE StripTrailingSlashes(_)
StripTrailingSlashes(p) ==
    IF Len(p) > 0 /\ p[Len(p)] = "/"
    THEN StripTrailingSlashes(SubSeq(p, 1, Len(p) - 1))
    ELSE p

\* filepath.Base: "" is ".", trailing separators are dropped, the last element
\* is returned, and a path of separators only is "/".
Base(path) ==
    IF path = <<>> THEN <<".">>
    ELSE LET p == StripTrailingSlashes(path)
             slashes == {i \in DOMAIN p : p[i] = "/"}
             last == IF slashes = {} THEN 0
                     ELSE CHOOSE i \in slashes : \A j \in slashes : j <= i
             b == SubSeq(p, last + 1, Len(p))
         IN IF b = <<>> THEN <<"/">> ELSE b

(***************************************************************************)
(* models.go: TokenUsage and UsageTotals.                                  *)
(***************************************************************************)
TokenUsage(i, o, cw, cr) ==
    [InputTokens |-> i, OutputTokens |-> o,
     CacheCreationInputTokens |-> cw, CacheReadInputTokens |-> cr]

IsZeroUsage(u) ==
    /\ u.InputTokens = 0 /\ u.OutputTokens = 0
    /\ u.CacheCreationInputTokens = 0 /\ u.CacheReadInputTokens = 0

\* The zero value of UsageTotals.
ZeroTotals ==
    [InputTokens |-> 0, OutputTokens |-> 0, CacheCreationInputTokens |-> 0,
     CacheReadInputTokens |-> 0, MessageCount |-> 0, CostUSD |-> 0]

Add(t, u, cost) ==
    [InputTokens |-> t.InputTokens + u.InputTokens,
     OutputTokens |-> t.OutputTokens + u.OutputTokens,
     CacheCreationInputTokens |-> t.CacheCreationInputTokens + u.CacheCreationInputTokens,
     CacheReadInputTokens |-> t.CacheReadInputTokens + u.CacheReadInputTokens,
     MessageCount |-> t.MessageCount + 1,
     CostUSD |-> t.CostUSD + cost]

TotalTokens(t) ==
    t.InputTokens + t.OutputTokens + t.CacheCreationInputTokens + t.CacheReadInputTokens

\* The denominator without the cache reads.
CacheEfficiencyDenomNoReads(t) ==
    t.InputTokens + t.CacheCreationInputTokens

CacheEfficiencyDenom(t) ==
    t.InputTokens + t.CacheCreationInputTokens + t.CacheReadInputTokens

CacheEfficiency(t) ==
    IF CacheEfficiencyDenom(t) = 0 THEN FracZero
    ELSE Frac(t.CacheReadInputTokens, CacheEfficiencyDenom(t))

(***************************************************************************)
(* pricing.go.                                                             *)
(***************************************************************************)
pricingTable == <<
    [Family |-> <<"c", "l", "a", "u", "d", "e", "-", "o", "p", "u", "s", "-", "4">>,
     InputPerMTok |-> 1500, OutputPerMTok |-> 7500, CacheWritePerMTok |-> 1875, CacheReadPerMTok |-> 150],
    [Family |-> <<"c", "l", "a", "u", "d", "e", "-", "s", "o", "n", "n", "e", "t", "-", "4">>,
     InputPerMTok |-> 300, OutputPerMTok |-> 1500, CacheWritePerMTok |-> 375, CacheReadPerMTok |-> 30],
    [Family |-> <<"c", "l", "a", "u", "d", "e", "-", "h", "a", "i", "k", "u", "-", "4">>,
     InputPerMTok |-> 80, OutputPerMTok |-> 400, CacheWritePerMTok |-> 100, CacheReadPerMTok |-> 8],
    [Family |-> <<"c", "l", "a", "u", "d", "e", "-", "3", "-", "o", "p", "u", "s">>,
     InputPerMTok |-> 1500, OutputPerMTok |-> 7500, CacheWritePerMTok |-> 1875, CacheReadPerMTok |-> 150],
    [Family |-> <<"c", "l", "a", "u", "d", "e", "-", "3", "-", "5", "-", "s", "o", "n", "n", "e", "t">>,
     InputPerMTok |-> 300, OutputPerMTok |-> 1500, CacheWritePerMTok |-> 375, CacheReadPerMTok |-> 30],
    [Family |-> <<"c", "l", "a", "u", "d", "e", "-", "3", "-", "s", "o", "n", "n", "e", "t">>,
     InputPerMTok |-> 300, OutputPerMTok |-> 1500, CacheWritePerMTok |-> 375, CacheReadPerMTok |-> 30],
    [Family |-> <<"c", "l", "a", "u", "d", "e", "-", "3", "-", "5", "-", "h", "a", "i", "k", "u">>,
     InputPerMTok |-> 80, OutputPerMTok |-> 400, CacheWritePerMTok |-> 100, CacheReadPerMTok |-> 8],
    [Family |-> <<"c", "l", "a", "u", "d", "e", "-", "3", "-", "h", "a", "i", "k", "u">>,
     InputPerMTok |-> 80, OutputPerMTok |-> 400, CacheWritePerMTok |-> 100, CacheReadPerMTok |-> 8]
>>

ZeroPricing ==
    [Family |-> <<>>, InputPerMTok |-> 0, OutputPerMTok |-> 0,
     CacheWritePerMTok |-> 0, CacheReadPerMTok |-> 0]

RECURSIVE LookupFrom(_, _, _, _)
\* The loop of LookupPricing from table index i on.
LookupFrom(modelID, i, best, bestLen) ==
    IF i > Len(pricingTable) THEN [pricing |-> best, found |-> bestLen >= 0]
    ELSE IF HasPrefix(modelID, pricingTable[i].Family) /\ Len(pricingTable[i].Family) > bestLen
         THEN LookupFrom(modelID, i + 1, pricingTable[i], Len(pricingTable[i].Family))
         ELSE LookupFrom(modelID, i + 1, best, bestLen)

\* LookupPricing that accepts a family only when it is the whole model id.
LookupPricingExact(modelID) ==
    IF \E i \in DOMAIN pricingTable : pricingTable[i].Family = modelID
    THEN [pricing |-> pricingTable[CHOOSE i \in DOMAIN pricingTable :
                                      pricingTable[i].Family = modelID],
          found |-> TRUE]
    ELSE [pricing |-> ZeroPricing, found |-> FALSE]

LookupPricing(modelID) == LookupFrom(modelID, 1, ZeroPricing, -1)

ComputeCost(modelID, u) ==
    LET l == LookupPricing(modelID) IN
    IF ~l.found THEN 0
    ELSE u.InputTokens * l.pricing.InputPerMTok
         + u.OutputTokens * l.pricing.OutputPerMTok
         + u.CacheCreationInputTokens * l.pricing.CacheWritePerMTok
         + u.CacheReadInputTokens * l.pricing.CacheReadPerMTok

(***************************************************************************)
(* Maps (Go maps): functions whose domain is the set of present keys.      *)
(***************************************************************************)
EmptyMap == <<>>

Put(m, k, v) == [x \in (DOMAIN m) \cup {k} |-> IF x = k THEN v ELSE m[x]]

Get(m, k, default) == IF k \in DOMAIN m THEN m[k] ELSE default

(***************************************************************************)
(* Time.                                                                   *)
(***************************************************************************)
\* time.Time.IsZero
IsZeroTime(ts) == ts = 0

\* t.UTC().Format("2006-01-02"), as a day number.
DateOf(ts) == ts \div 24

\* t.AddDate(0, 0, d) on a UTC time.
AddDays(ts, d) == ts + 24 * d

\* The wall clock when Aggregate is entered: day 10, 23:00 UTC.
StartNow == 10 * 24 + 23

(***************************************************************************)
(* Inputs of one Aggregate pass.                                           *)
(***************************************************************************)
KindSession == "KindSession"

KindSubagent == "KindSubagent"

Kinds == {KindSession, KindSubagent}

SlugApp == <<"-", "A", "p", "p">>

SlugLib == <<"-", "l", "i", "b">>

Slugs == {SlugApp, SlugLib}

CwdApp == <<"/", "x", "/", "a", "p", "p">>

CWDs == {<<>>, CwdApp}

\* No filter, a name, and the name filepath.Base gives the empty path.
ProjectFilters == {<<>>, <<"a", "p", "p">>, <<".">>}

DaysChoices == {0, 1, 2}

ModelOpus == <<"c", "l", "a", "u", "d", "e", "-", "o", "p", "u", "s", "-", "4", "-", "1">>

ModelUnknown == <<"f", "o", "o">>

\* A second model id that no pricing family is a prefix of.
ModelFooBar == <<"f", "o", "o", "-", "b", "a", "r", "-", "9", "0", "0", "0">>

ModelIDs == {ModelOpus, ModelUnknown, ModelFooBar}

SessionIDs == {"s1", "s2"}

UUIDs == {"", "u1"}

\* The zero time, an hour before every cutoff, the cutoff of a 1-day window
\* taken at StartNow, and an hour of the current day.
TimeChoices == {0, StartNow - 49, StartNow - 24, StartNow - 5}

\* A decoded assistant line with non-zero usage.
UsageLine(uuid, sid, ts, cwd, model, usage) ==
    [kind |-> "record", Type |-> "assistant", UUID |-> uuid, SessionID |-> sid,
     Timestamp |-> ts, CWD |-> cwd, Model |-> model, Usage |-> usage]

UsageSmall == TokenUsage(1, 0, 0, 0)

UsageLarge == TokenUsage(0, 2, 1, 3)

\* Lines that ParseFile keeps when their UUID was not seen before: every
\* session at every time, and lines that carry a working directory, a UUID,
\* an unpriced model and another usage.
UsageLines ==
    {UsageLine("", sid, ts, <<>>, ModelOpus, UsageSmall) :
        sid \in SessionIDs, ts \in TimeChoices}
    \cup {UsageLine("", "s1", StartNow - 5, CwdApp, ModelOpus, UsageSmall),
          UsageLine("u1", "s1", StartNow - 5, <<>>, ModelUnknown, UsageLarge),
          UsageLine("u1", "s2", StartNow - 24, CwdApp, ModelUnknown, UsageLarge),
          UsageLine("", "s2", StartNow - 5, <<>>, ModelFooBar, UsageLarge)}

\* Lines ParseFile drops: an empty line, a line that does not decode, a record
\* that is not of type assistant, an assistant record with zero usage.
DroppedLines ==
    {[kind |-> "empty"], [kind |-> "bad"],
     [kind |-> "record", Type |-> "user", UUID |-> "", SessionID |-> "s1",
      Timestamp |-> StartNow - 5, CWD |-> CwdApp, Model |-> <<>>,
      Usage |-> TokenUsage(0, 0, 0, 0)],
     [kind |-> "record", Type |-> "assistant", UUID |-> "", SessionID |-> "s1",
      Timestamp |-> StartNow - 5, CWD |-> CwdApp, Model |-> ModelOpus,
      Usage |-> TokenUsage(0, 0, 0, 0)]}

Lines == UsageLines \cup DroppedLines

FileInfos == [Kind : Kinds, ProjectSlug : Slugs]

DigitChars == <<"0", "1", "2", "3", "4", "5", "6", "7", "8", "9">>

\* strconv.Atoi on an unsigned or signed decimal string.
Atoi(k) ==
    LET signed == Len(k) > 0 /\ k[1] \in {"+", "-"}
        ds == IF signed THEN Tail(k) ELSE k
        digit(c) == (CHOOSE i \in DOMAIN DigitChars : DigitChars[i] = c) - 1
        val[i \in 0..Len(ds)] == IF i = 0 THEN 0 ELSE 10 * val[i - 1] + digit(ds[i])
    IN IF ds = <<>> \/ \E i \in DOMAIN ds : ds[i] \notin Range(DigitChars)
       THEN [ok |-> FALSE, val |-> 0]
       ELSE [ok |-> TRUE,
             val |-> IF signed /\ k[1] = "-" THEN 0 - val[Len(ds)] ELSE val[Len(ds)]]

\* opts.StatsCache: NoStatsCache is the nil pointer.
NoStatsCache == [present |-> FALSE, HourCounts |-> EmptyMap]

StatsCacheOf(hc) == [present |-> TRUE, HourCounts |-> hc]

StatsCaches ==
    {NoStatsCache,
     StatsCacheOf(Put(Put(Put(EmptyMap, <<"9">>, 4), <<"1", "4">>, 4), <<"x">>, 7))}

(***************************************************************************)
(* State.                                                                  *)
(***************************************************************************)
VARIABLES
    opts,        \* AggregateOptions: Days, Project
    now,         \* the wall clock, time.Now().UTC()
    cutoff,      \* Aggregate's cutoff
    report,      \* the AggregatedReport under construction
    projectMap,  \* slug -> ProjectSummary
    sessionMap,  \* session id -> SessionSummary
    dailyMap,    \* date -> UsageTotals
    slugCWD,     \* slug -> first non-empty cwd
    cur,         \* the file being read: its FileInfo, ParseFile's seen set, the
                 \* index i of the next record of the range loop, the break
    pc,          \* "idle" | "run" | "done"
    nFiles, nLines,
    sessFiles,   \* history: session id -> slugs of the files whose records
                 \* were accumulated into that session
    sessTimes,   \* history: session id -> timestamps of the records
                 \* accumulated into that session
    fileFates,   \* history: slug -> what the project filter decided for the
                 \* files of that slug, "accepted" or "rejected"
    acc,         \* a stand-alone UsageTotals accumulator
    nAdds,
    clarCutoff,  \* ComputeClarity's cutoff argument
    stateMap,    \* session id -> sessionClarityState
    clarOpen,    \* a session file's records are being read
    clarPc,      \* "idle" | "run" | "done"
    nClarFiles, nClarRecs,
    allMetrics,  \* session id -> sessionMetrics
    clarity,     \* the ClarityReport returned
    replied,     \* history: session ids whose state an assistant record
                 \* has reached
    tipReport,   \* the report handed to the tip selectors
    tipsOut,     \* what SelectCoachingTips returned
    tipOut,      \* what SelectCoachingTip returned
    callArg,     \* the argument of a function called on its own
    callRet,     \* what that call returned
    srvDisk,     \* the Claude directory as the server finds it: the version of
                 \* the file list and the stats cache
    srvOpts,     \* ServeReport's opts, captured by the handler closure
    handlers     \* goroutine -> the /api/report handler it runs

aggVars ==
    <<opts, now, cutoff, report, projectMap, sessionMap, dailyMap, slugCWD, cur,
      pc, nFiles, nLines, sessFiles, sessTimes, fileFates>>

totVars == <<acc, nAdds>>

clarVars ==
    <<clarCutoff, stateMap, clarOpen, clarPc, nClarFiles, nClarRecs, allMetrics, clarity,
      replied>>

tipVars == <<tipReport, tipsOut, tipOut>>

callVars == <<callArg, callRet>>

srvVars == <<srvDisk, srvOpts, handlers>>

vars == <<aggVars, totVars, clarVars, tipVars, callVars, srvVars>>

\* What a step of Aggregate leaves alone, and what a step of Add leaves alone.
notAggVars == <<totVars, clarVars, tipVars, callVars, srvVars>>

notTotVars == <<aggVars, clarVars, tipVars, callVars, srvVars>>

notClarVars == <<aggVars, totVars, tipVars, callVars, srvVars>>

notTipVars == <<aggVars, totVars, clarVars, callVars, srvVars>>

notCallVars == <<aggVars, totVars, clarVars, tipVars, srvVars>>

notSrvVars == <<aggVars, totVars, clarVars, tipVars, callVars>>

(***************************************************************************)
(* aggregate.go: helpers of Aggregate.                                     *)
(***************************************************************************)
NewProject(slug) ==
    [Slug |-> slug, Name |-> <<>>, Path |-> <<>>, Totals |-> ZeroTotals,
     SessionCount |-> 0, SubagentCount |-> 0, ModelBreakdown |-> EmptyMap,
     Sessions |-> <<>>]

getOrCreateProject(m, slug) == IF slug \in DOMAIN m THEN m ELSE Put(m, slug, NewProject(slug))

NewSession(sessionID, projectSlug) ==
    [SessionID |-> sessionID, ProjectName |-> <<>>, ProjectSlug |-> projectSlug,
     StartTime |-> 0, EndTime |-> 0, Totals |-> ZeroTotals,
     SubagentTotals |-> ZeroTotals, ModelBreakdown |-> EmptyMap]

getOrCreateSession(m, sessionID, projectSlug) ==
    IF sessionID \in DOMAIN m THEN m ELSE Put(m, sessionID, NewSession(sessionID, projectSlug))

CombinedTokens(s) == TotalTokens(s.Totals) + TotalTokens(s.SubagentTotals)

\* AddTo with the bucket replaced by a fresh one on every record.
AddToOverwrites(m, k, u, cost) == Put(m, k, Add(ZeroTotals, u, cost))

\* m[k].Add(usage, cost), the bucket being created first when it is missing.
AddTo(m, k, u, cost) == Put(m, k, Add(Get(m, k, ZeroTotals), u, cost))

\* The increasing sequence of the elements of a finite set of numbers.
SortedSeq(S) ==
    CHOOSE s \in Perms(S) : \A i, j \in DOMAIN s : i < j => s[i] < s[j]

\* The all-time Daily slice keeps the last 30 dates.
MaxDailyDisplay == 30

\* buildDailySlice with the window shifted one day into the past.
buildDailySliceShifted(dm, days, nowT) ==
    IF days > 0
    THEN [k \in 1..days |->
            LET date == DateOf(AddDays(nowT, 0 - (days - k) - 1))
            IN [Date |-> date, Totals |-> Get(dm, date, ZeroTotals)]]
    ELSE LET all == SortedSeq(DOMAIN dm)
             kept == IF Len(all) > MaxDailyDisplay
                     THEN SubSeq(all, Len(all) - MaxDailyDisplay + 1, Len(all))
                     ELSE all
         IN [k \in 1..Len(kept) |-> [Date |-> kept[k], Totals |-> dm[kept[k]]]]

buildDailySlice(dm, days, nowT) ==
    IF days > 0
    THEN [k \in 1..days |->
            LET date == DateOf(AddDays(nowT, 0 - (days - k)))
            IN [Date |-> date, Totals |-> Get(dm, date, ZeroTotals)]]
    ELSE LET all == SortedSeq(DOMAIN dm)
             kept == IF Len(all) > MaxDailyDisplay
                     THEN SubSeq(all, Len(all) - MaxDailyDisplay + 1, Len(all))
                     ELSE all
         IN [k \in 1..Len(kept) |-> [Date |-> kept[k], Totals |-> dm[kept[k]]]]

RECURSIVE PeakFold(_, _, _, _)
\* peakHour's loop over the keys in the iteration order `order`.
PeakFold(hc, order, best, bestCount) ==
    IF order = <<>> THEN best
    ELSE LET k == Head(order)
             a == Atoi(k)
         IN IF a.ok /\ hc[k] > bestCount
            THEN PeakFold(hc, Tail(order), a.val, hc[k])
            ELSE PeakFold(hc, Tail(order), best, bestCount)

\* The values peakHour can return: Go iterates a map in an unspecified order.
peakHour(hc) ==
    IF DOMAIN hc = {} THEN {-1}
    ELSE {PeakFold(hc, order, -1, 0) : order \in Perms(DOMAIN hc)}

Insight(sev, kind, arg) == [Severity |-> sev, Kind |-> kind, Arg |-> arg]

\* generateInsights, the unrecognized-model warnings in the order `unknownOrder`.
generateInsights(r, unknownOrder) ==
    LET eff == CacheEfficiency(r.Grand)
        cache == IF FracLe(Frac(3, 4), eff) THEN <<Insight("good", "cache", <<>>)>>
                 ELSE IF FracLe(Frac(2, 5), eff) THEN <<Insight("info", "cache", <<>>)>>
                 ELSE IF TotalTokens(r.Grand) > 0 THEN <<Insight("warn", "cache", <<>>)>>
                 ELSE <<>>
        total == TotalTokens(r.Grand)
        verbose == IF total > 0 /\ FracLt(Frac(3, 10), Frac(r.Grand.OutputTokens, total))
                   THEN <<Insight("warn", "verbose", <<>>)>> ELSE <<>>
        subagentTotal == SumSeq([i \in DOMAIN r.Sessions |->
                                    TotalTokens(r.Sessions[i].SubagentTotals)])
        subagent == IF subagentTotal > 0 /\ total > 0
                    THEN <<Insight("info", "subagent", <<>>)>> ELSE <<>>
        peak == IF r.PeakHour >= 0 THEN <<Insight("info", "peak", <<>>)>> ELSE <<>>
        unknown == [i \in DOMAIN unknownOrder |-> Insight("warn", "unknown-model", unknownOrder[i])]
        errs == IF r.ParseErrors > 0 THEN <<Insight("warn", "parse-errors", <<>>)>> ELSE <<>>
    IN cache \o verbose \o subagent \o peak \o unknown \o errs

\* Every model of the report taken as unrecognized.
UnknownModelsAll(r) == DOMAIN r.ModelSummaries

\* Lines 325-333: the models the loop appends a warning for.
UnknownModels(r) == {m \in DOMAIN r.ModelSummaries : ~LookupPricing(m).found}

(***************************************************************************)
(* Aggregate as a state machine.  ParseFile's scan loop and the range loop *)
(* over the records it returns advance together, one line at a time: the   *)
(* record loop sees exactly the lines ParseFile keeps, in file order, and  *)
(* ParseFile goes on reading (and counting errors) after the loop's break. *)
(***************************************************************************)
NoFile ==
    [open |-> FALSE, Kind |-> KindSession, ProjectSlug |-> <<>>, i |-> 0,
     seen |-> {}, skip |-> FALSE]

EmptyReport(o) ==
    [Grand |-> ZeroTotals, ModelSummaries |-> EmptyMap, Projects |-> <<>>,
     Sessions |-> <<>>, Daily |-> <<>>, ParseErrors |-> 0, Insights |-> <<>>,
     DateFrom |-> 0, DateTo |-> 0, FilterDays |-> o.Days,
     FilterProject |-> o.Project, PeakHour |-> -1]

\* Aggregate lines 20-37.
AggInit ==
    /\ opts \in [Days : DaysChoices, Project : ProjectFilters]
    /\ now = StartNow
    /\ cutoff = IF opts.Days > 0 THEN AddDays(now, 0 - opts.Days) ELSE 0
    /\ report = EmptyReport(opts)
    /\ projectMap = EmptyMap
    /\ sessionMap = EmptyMap
    /\ dailyMap = EmptyMap
    /\ slugCWD = EmptyMap
    /\ cur = NoFile
    /\ pc = "run"
    /\ nFiles = 0
    /\ nLines = 0
    /\ sessFiles = EmptyMap
    /\ sessTimes = EmptyMap
    /\ fileFates = EmptyMap

\* The next file of the list: ParseFile opens it, or fails to (nil, 1).
OpenFile(fi, readable) ==
    /\ pc = "run"
    /\ ~cur.open
    /\ nFiles < MaxFiles
    /\ nFiles' = nFiles + 1
    /\ IF readable
       THEN /\ cur' = [open |-> TRUE, Kind |-> fi.Kind, ProjectSlug |-> fi.ProjectSlug,
                       i |-> 0, seen |-> {}, skip |-> FALSE]
            /\ UNCHANGED report
       ELSE /\ report' = [report EXCEPT !.ParseErrors = @ + 1]
            /\ UNCHANGED cur
    /\ UNCHANGED <<opts, now, cutoff, projectMap, sessionMap, dailyMap, slugCWD,
                   pc, nLines, sessFiles, sessTimes, fileFates>>
    /\ UNCHANGED notAggVars

\* Kept without the UUID test.
KeptWhateverUUID(line, seen) ==
    /\ line.kind = "record"
    /\ line.Type = "assistant"
    /\ ~IsZeroUsage(line.Usage)

\* ParseFile's decision on one line: TRUE when the line is appended to records.
Kept(line, seen) ==
    /\ line.kind = "record"
    /\ line.Type = "assistant"
    /\ ~IsZeroUsage(line.Usage)
    /\ ~(line.UUID # "" /\ line.UUID \in seen)

\* Lines 58-61: the cwd of a slug is the first non-empty one.
CaptureCWD(scwd, slug, rec) ==
    IF rec.CWD # <<>> /\ Get(scwd, slug, <<>>) = <<>> THEN Put(scwd, slug, rec.CWD) ELSE scwd

\* Lines 62-69: the project filter rejects the file at its first record.
Rejects(o, scwd, slug, i) ==
    /\ o.Project # <<>>
    /\ i = 0
    /\ ~containsCI(slug, o.Project)
    /\ ~containsCI(Base(Get(scwd, slug, <<>>)), o.Project)

\* The date filter that also drops a record stamped exactly at the cutoff.
BeforeOrAtDateCutoff(o, co, rec) == o.Days > 0 /\ rec.Timestamp <= co

\* Lines 71-74: opts.Days > 0 && rec.Timestamp.Before(cutoff).
BeforeDateCutoff(o, co, rec) == o.Days > 0 /\ rec.Timestamp < co

\* WidenRange without the test for a zero timestamp.
WidenRangeCountsZero(sess, ts) ==
    LET s1 == IF IsZeroTime(sess.StartTime) \/ ts < sess.StartTime
              THEN [sess EXCEPT !.StartTime = ts] ELSE sess
    IN IF ts > s1.EndTime THEN [s1 EXCEPT !.EndTime = ts] ELSE s1

\* Lines 116-124.
WidenRange(sess, ts) ==
    IF IsZeroTime(ts) THEN sess
    ELSE LET s1 == IF IsZeroTime(sess.StartTime) \/ ts < sess.StartTime
                   THEN [sess EXCEPT !.StartTime = ts] ELSE sess
         IN IF ts > s1.EndTime THEN [s1 EXCEPT !.EndTime = ts] ELSE s1

\* AddToSession with the subagent's model entered in the breakdown too.
AddToSessionBreaksDownSubagent(sess, kind, model, usage, cost) ==
    IF kind = KindSubagent
    THEN [sess EXCEPT !.SubagentTotals = Add(@, usage, cost),
                      !.ModelBreakdown = AddTo(@, model, usage, cost)]
    ELSE [sess EXCEPT !.Totals = Add(@, usage, cost),
                      !.ModelBreakdown = AddTo(@, model, usage, cost)]

\* AddToSession without the subagent branch's Add.
AddToSessionDropsSubagent(sess, kind, model, usage, cost) ==
    IF kind = KindSubagent
    THEN sess
    ELSE [sess EXCEPT !.Totals = Add(@, usage, cost),
                      !.ModelBreakdown = AddTo(@, model, usage, cost)]

\* Lines 105-115.
AddToSession(sess, kind, model, usage, cost) ==
    IF kind = KindSubagent
    THEN [sess EXCEPT !.SubagentTotals = Add(@, usage, cost)]
    ELSE [sess EXCEPT !.Totals = Add(@, usage, cost),
                      !.ModelBreakdown = AddTo(@, model, usage, cost)]

\* Lines 97-103.
AddToProject(proj, model, usage, cost) ==
    [proj EXCEPT !.Totals = Add(@, usage, cost),
                 !.ModelBreakdown = AddTo(@, model, usage, cost)]

\* The filter's decision for a file of the slug, added to the history.
Decided(ff, slug, fate) == Put(ff, slug, Get(ff, slug, {}) \cup {fate})

\* Lines 76-131: one record that passed both filters is folded into every axis.
Accumulate(rec) ==
    LET model == rec.Model
        usage == rec.Usage
        cost == ComputeCost(model, usage)
        slug == cur.ProjectSlug
        pm == getOrCreateProject(projectMap, slug)
        sm == getOrCreateSession(sessionMap, rec.SessionID, slug)
        from == IF IsZeroTime(report.DateFrom) \/ rec.Timestamp < report.DateFrom
                THEN rec.Timestamp ELSE report.DateFrom
        to == IF rec.Timestamp > report.DateTo THEN rec.Timestamp ELSE report.DateTo
    IN /\ report' = [report EXCEPT !.DateFrom = from, !.DateTo = to,
                                   !.Grand = Add(@, usage, cost),
                                   !.ModelSummaries = AddTo(@, model, usage, cost)]
       /\ projectMap' = [pm EXCEPT ![slug] = AddToProject(@, model, usage, cost)]
       /\ sessionMap' = [sm EXCEPT ![rec.SessionID] =
                            WidenRange(AddToSession(@, cur.Kind, model, usage, cost),
                                       rec.Timestamp)]
       /\ dailyMap' = AddTo(dailyMap, DateOf(rec.Timestamp), usage, cost)
       /\ sessFiles' = Put(sessFiles, rec.SessionID,
                           Get(sessFiles, rec.SessionID, {}) \cup {slug})
       /\ sessTimes' = Put(sessTimes, rec.SessionID,
                           Get(sessTimes, rec.SessionID, {}) \cup {rec.Timestamp})

\* One line of the open file: ParseFile lines 116-147, then, for a line it
\* keeps, one iteration of the record loop (Aggregate lines 57-132).
ReadLine(line) ==
    /\ pc = "run"
    /\ cur.open
    /\ nLines < MaxLines
    /\ nLines' = nLines + 1
    /\ UNCHANGED <<opts, now, cutoff, pc, nFiles>>
    /\ IF ~Kept(line, cur.seen)
       THEN /\ report' = IF line.kind = "bad"
                         THEN [report EXCEPT !.ParseErrors = @ + 1] ELSE report
            /\ UNCHANGED <<projectMap, sessionMap, dailyMap, slugCWD, cur, sessFiles, sessTimes, fileFates>>
       ELSE LET seen2 == IF line.UUID # "" THEN cur.seen \cup {line.UUID} ELSE cur.seen
                next == [cur EXCEPT !.seen = seen2, !.i = @ + 1]
            IN IF cur.skip
               THEN /\ cur' = next
                    /\ UNCHANGED <<report, projectMap, sessionMap, dailyMap, slugCWD, sessFiles, sessTimes, fileFates>>
               ELSE LET scwd == CaptureCWD(slugCWD, cur.ProjectSlug, line)
                    IN /\ slugCWD' = scwd
                       /\ IF Rejects(opts, scwd, cur.ProjectSlug, cur.i)
                          THEN /\ cur' = [next EXCEPT !.skip = TRUE]
                               /\ fileFates' = Decided(fileFates, cur.ProjectSlug, "rejected")
                               /\ UNCHANGED <<report, projectMap, sessionMap, dailyMap,
                                              sessFiles, sessTimes>>
                          ELSE /\ cur' = next
                               /\ fileFates' = IF opts.Project # <<>> /\ cur.i = 0
                                               THEN Decided(fileFates, cur.ProjectSlug,
                                                            "accepted")
                                               ELSE fileFates
                               /\ IF BeforeDateCutoff(opts, cutoff, line)
                                  THEN UNCHANGED <<report, projectMap, sessionMap, dailyMap,
                                                   sessFiles, sessTimes>>
                                  ELSE Accumulate(line)
    /\ UNCHANGED notAggVars

\* The end of the open file: scanner.Err() may report a read error.
CloseFile(scanErr) ==
    /\ pc = "run"
    /\ cur.open
    /\ cur' = NoFile
    /\ report' = IF scanErr THEN [report EXCEPT !.ParseErrors = @ + 1] ELSE report
    /\ UNCHANGED <<opts, now, cutoff, projectMap, sessionMap, dailyMap, slugCWD,
                   pc, nFiles, nLines, sessFiles, sessTimes, fileFates>>
    /\ UNCHANGED notAggVars

\* Lines 135-143.
EnrichProject(proj, scwd) ==
    LET c == Get(scwd, proj.Slug, <<>>)
        cwd == IF c = <<>> THEN slugToPath(proj.Slug) ELSE c
    IN [proj EXCEPT !.Path = cwd, !.Name = Base(cwd)]

\* Lines 145-153.
EnrichSession(sess, pm) ==
    IF sess.ProjectSlug \in DOMAIN pm
    THEN [sess EXCEPT !.ProjectName = pm[sess.ProjectSlug].Name]
    ELSE [sess EXCEPT !.ProjectName = Base(slugToPath(sess.ProjectSlug))]

\* The subsequence of the session ids of `order` that belong to slug.
RECURSIVE SessionsOf(_, _, _)
SessionsOf(order, sm, slug) ==
    IF order = <<>> THEN <<>>
    ELSE IF sm[Head(order)].ProjectSlug = slug
         THEN <<Head(order)>> \o SessionsOf(Tail(order), sm, slug)
         ELSE SessionsOf(Tail(order), sm, slug)

\* Lines 155-164, the sessions being visited in the order `order`.  A
\* ProjectSummary holds pointers to its sessions: here their ids.
AttachSessions(proj, sm, order) ==
    LET mine == SessionsOf(order, sm, proj.Slug)
    IN [proj EXCEPT !.Sessions = mine,
                    !.SessionCount = Len(mine),
                    !.SubagentCount =
                        Cardinality({i \in DOMAIN mine :
                                        TotalTokens(sm[mine[i]].SubagentTotals) > 0})]

\* The orders in which sort.Slice can leave the keys of the weight table w:
\* non-increasing in weight, ties placed anywhere.
SortedDesc(w) ==
    {o \in Perms(DOMAIN w) : \A a, b \in DOMAIN o : a < b => w[o[a]] >= w[o[b]]}

\* Lines 135-192, after the last file.  The iteration orders of the maps and
\* the placement of ties by sort.Slice are unspecified; buildDailySlice reads
\* the wall clock again, `elapsed` hours after Aggregate's first reading.
Finish(sc, elapsed) ==
    /\ pc = "run"
    /\ ~cur.open
    /\ \E attachOrder \in Perms(DOMAIN sessionMap),
          projOrder \in SortedDesc([s \in DOMAIN projectMap |-> TotalTokens(projectMap[s].Totals)]),
          sessOrder \in SortedDesc([s \in DOMAIN sessionMap |-> CombinedTokens(sessionMap[s])]),
          ph \in (IF sc.present THEN peakHour(sc.HourCounts) ELSE {-1}),
          unknownOrder \in Perms(UnknownModels(report)) :
          \* (a singleton \E binds a value that is then computed once)
          \E pm1 \in {[s \in DOMAIN projectMap |-> EnrichProject(projectMap[s], slugCWD)]} :
          \E sm1 \in {[s \in DOMAIN sessionMap |-> EnrichSession(sessionMap[s], pm1)]} :
          \E pm2 \in {[s \in DOMAIN pm1 |-> AttachSessions(pm1[s], sm1, attachOrder)]} :
          \E r1 \in {[report EXCEPT
                        !.Projects = [k \in DOMAIN projOrder |-> pm2[projOrder[k]]],
                        !.Sessions = [k \in DOMAIN sessOrder |-> sm1[sessOrder[k]]],
                        !.Daily = buildDailySlice(dailyMap, opts.Days, now + elapsed),
                        !.PeakHour = ph]} :
             /\ projectMap' = pm2
             /\ sessionMap' = sm1
             /\ report' = [r1 EXCEPT !.Insights = generateInsights(r1, unknownOrder)]
    /\ now' = now + elapsed
    /\ pc' = "done"
    /\ UNCHANGED <<opts, cutoff, dailyMap, slugCWD, cur, nFiles, nLines, sessFiles, sessTimes, fileFates>>
    /\ UNCHANGED notAggVars

AggNext ==
    \/ \E fi \in FileInfos, readable \in BOOLEAN : OpenFile(fi, readable)
    \/ \E line \in Lines : ReadLine(line)
    \/ \E scanErr \in BOOLEAN : CloseFile(scanErr)
    \/ \E sc \in StatsCaches, elapsed \in 0..MaxElapsed : Finish(sc, elapsed)

\* The state of the aggregator while another component is exercised.
AggIdle ==
    /\ opts = [Days |-> 0, Project |-> <<>>]
    /\ now = StartNow
    /\ cutoff = 0
    /\ report = EmptyReport(opts)
    /\ projectMap = EmptyMap
    /\ sessionMap = EmptyMap
    /\ dailyMap = EmptyMap
    /\ slugCWD = EmptyMap
    /\ cur = NoFile
    /\ pc = "idle"
    /\ nFiles = 0
    /\ nLines = 0
    /\ sessFiles = EmptyMap
    /\ sessTimes = EmptyMap
    /\ fileFates = EmptyMap

(***************************************************************************)
(* UsageTotals on its own: any sequence of Add calls.                      *)
(***************************************************************************)
\* Non-negative token counts, the all-zero usage included.
AddUsages ==
    {TokenUsage(i, o, cw, cr) : i \in 0..1, o \in 0..1, cw \in 0..1, cr \in {0, 2}}

TotIdle ==
    /\ acc = ZeroTotals
    /\ nAdds = 0

TotInit == TotIdle

AddCall(u, model) ==
    /\ nAdds < MaxAdds
    /\ acc' = Add(acc, u, ComputeCost(model, u))
    /\ nAdds' = nAdds + 1
    /\ UNCHANGED notTotVars

TotNext == \E u \in AddUsages, model \in ModelIDs : AddCall(u, model)

(***************************************************************************)
(* clarity.go: the signal phrase lists, as sequences of characters.        *)
(***************************************************************************)
walkbackSignals ==
    <<<<"n", "o", ",">>,
      <<"n", "o", ".">>,
      <<"n", "o", "!">>,
      <<"n", "o", " ", "n", "o">>,
      <<"a", "c", "t", "u", "a", "l", "l", "y">>,
      <<"a", "c", "t", "u", "a", "l", "l", "y", ",">>,
      <<"w", "a", "i", "t", ",">>,
      <<"w", "a", "i", "t", ".">>,
      <<"w", "a", "i", "t", " ", "w", "a", "i", "t">>,
      <<"w", "r", "o", "n", "g", ",">>,
      <<"w", "r", "o", "n", "g", ".">>,
      <<"t", "h", "a", "t", "'", "s", " ", "w", "r", "o", "n", "g">>,
      <<"t", "h", "a", "t", "s", " ", "w", "r", "o", "n", "g">>,
      <<"t", "h", "a", "t", " ", "w", "a", "s", " ", "w", "r", "o", "n", "g">>,
      <<"s", "c", "r", "a", "t", "c", "h", " ", "t", "h", "a", "t">>,
      <<"i", "g", "n", "o", "r", "e", " ", "t", "h", "a", "t">>,
      <<"d", "i", "s", "r", "e", "g", "a", "r", "d", " ", "t", "h", "a", "t">>,
      <<"n", "e", "v", "e", "r", "m", "i", "n", "d">>,
      <<"n", "e", "v", "e", "r", " ", "m", "i", "n", "d">>,
      <<"f", "o", "r", "g", "e", "t", " ", "t", "h", "a", "t">>,
      <<"f", "o", "r", "g", "e", "t", " ", "i", "t">>,
      <<"i", "n", "s", "t", "e", "a", "d", ",">>,
      <<"i", "n", "s", "t", "e", "a", "d", ".">>,
      <<"h", "o", "l", "d", " ", "o", "n">>,
      <<"h", "o", "l", "d", " ", "o", "n", ",">>,
      <<"t", "r", "y", " ", "a", "g", "a", "i", "n">>,
      <<"u", "n", "d", "o", " ", "t", "h", "a", "t">>,
      <<"g", "o", " ", "b", "a", "c", "k">>,
      <<"s", "t", "a", "r", "t", " ", "o", "v", "e", "r">>,
      <<"t", "h", "a", "t", "'", "s", " ", "n", "o", "t", " ", "r", "i", "g", "h", "t">>,
      <<"t", "h", "a", "t", "s", " ", "n", "o", "t", " ", "r", "i", "g", "h", "t">>,
      <<"r", "e", "v", "e", "r", "t">>,
      <<"r", "e", "v", "e", "r", "t", " ", "t", "h", "a", "t">>>>

scopePhrases ==
    <<<<"d", "o", "n", "'", "t", " ", "c", "h", "a", "n", "g", "e">>,
      <<"d", "o", "n", "t", " ", "c", "h", "a", "n", "g", "e">>,
      <<"d", "o", "n", "'", "t", " ", "t", "o", "u", "c", "h">>,
      <<"d", "o", "n", "t", " ", "t", "o", "u", "c", "h">>,
      <<"d", "o", "n", "'", "t", " ", "m", "o", "d", "i", "f", "y">>,
      <<"d", "o", "n", "t", " ", "m", "o", "d", "i", "f", "y">>,
      <<"d", "o", "n", "'", "t", " ", "a", "l", "t", "e", "r">>,
      <<"d", "o", "n", "t", " ", "a", "l", "t", "e", "r">>,
      <<"d", "o", "n", "'", "t", " ", "u", "p", "d", "a", "t", "e">>,
      <<"d", "o", "n", "t", " ", "u", "p", "d", "a", "t", "e">>,
      <<"d", "o", "n", "'", "t", " ", "a", "d", "d">>,
      <<"d", "o", "n", "t", " ", "a", "d", "d">>,
      <<"d", "o", "n", "'", "t", " ", "r", "e", "m", "o", "v", "e">>,
      <<"d", "o", "n", "t", " ", "r", "e", "m", "o", "v", "e">>,
      <<"d", "o", "n", "'", "t", " ", "d", "e", "l", "e", "t", "e">>,
      <<"d", "o", "n", "t", " ", "d", "e", "l", "e", "t", "e">>,
      <<"d", "o", "n", "'", "t", " ", "r", "e", "f", "a", "c", "t", "o", "r">>,
      <<"d", "o", "n", "t", " ", "r", "e", "f", "a", "c", "t", "o", "r">>,
      <<"o", "n", "l", "y", " ", "c", "h", "a", "n", "g", "e">>,
      <<"o", "n", "l", "y", " ", "m", "o", "d", "i", "f", "y">>,
      <<"o", "n", "l", "y", " ", "f", "i", "x">>,
      <<"o", "n", "l", "y", " ", "i", "n">>,
      <<"o", "n", "l", "y", " ", "t", "h", "e">>,
      <<"j", "u", "s", "t", " ", "t", "h", "a", "t", " ", "o", "n", "e">>,
      <<"j", "u", "s", "t", " ", "t", "h", "i", "s", " ", "o", "n", "e">>,
      <<"j", "u", "s", "t", " ", "t", "h", "a", "t", " ", "f", "i", "l", "e">>,
      <<"w", "i", "t", "h", "o", "u", "t", " ", "c", "h", "a", "n", "g", "i", "n", "g">>,
      <<"w", "i", "t", "h", "o", "u", "t", " ", "m", "o", "d", "i", "f", "y", "i", "n", "g">>,
      <<"p", "r", "e", "s", "e", "r", "v", "e", " ", "t", "h", "e">>,
      <<"k", "e", "e", "p", " ", "i", "t", " ", "t", "h", "e", " ", "s", "a", "m", "e">>,
      <<"k", "e", "e", "p", " ", "e", "v", "e", "r", "y", "t", "h", "i", "n", "g", " ", "e", "l", "s", "e">>,
      <<"l", "e", "a", "v", "e", " ", "i", "t">>,
      <<"l", "e", "a", "v", "e", " ", "t", "h", "a", "t">>,
      <<"l", "e", "a", "v", "e", " ", "t", "h", "e">>,
      <<"n", "o", "t", " ", "t", "h", "e", " ", "e", "n", "t", "i", "r", "e">>,
      <<"n", "o", "t", " ", "e", "v", "e", "r", "y", "t", "h", "i", "n", "g">>,
      <<"t", "h", "a", "t", " ", "f", "i", "l", "e", " ", "o", "n", "l", "y">>,
      <<"t", "h", "i", "s", " ", "f", "i", "l", "e", " ", "o", "n", "l", "y">>>>

formatPhrases ==
    <<<<"a", "s", " ", "c", "o", "d", "e">>,
      <<"i", "n", " ", "c", "o", "d", "e">>,
      <<"n", "o", "t", " ", "p", "r", "o", "s", "e">>,
      <<"a", "s", " ", "a", " ", "f", "u", "n", "c", "t", "i", "o", "n">>,
      <<"a", "s", " ", "a", " ", "c", "l", "a", "s", "s">>,
      <<"a", "s", " ", "a", " ", "m", "e", "t", "h", "o", "d">>,
      <<"a", "s", " ", "a", " ", "s", "n", "i", "p", "p", "e", "t">>,
      <<"i", "n", " ", "j", "s", "o", "n">>,
      <<"i", "n", " ", "y", "a", "m", "l">>,
      <<"i", "n", " ", "x", "m", "l">>,
      <<"i", "n", " ", "m", "a", "r", "k", "d", "o", "w", "n">>,
      <<"i", "n", " ", "t", "y", "p", "e", "s", "c", "r", "i", "p", "t">>,
      <<"i", "n", " ", "p", "y", "t", "h", "o", "n">>,
      <<"i", "n", " ", "g", "o", " ">>,
      <<"i", "n", " ", "r", "u", "s", "t">>,
      <<"i", "n", " ", "j", "a", "v", "a", "s", "c", "r", "i", "p", "t">>,
      <<"a", "s", " ", "p", "l", "a", "i", "n", " ", "t", "e", "x", "t">>,
      <<"a", "s", " ", "t", "e", "x", "t">>,
      <<"s", "h", "o", "r", "t", "e", "r">>,
      <<"s", "i", "m", "p", "l", "e", "r">>,
      <<"m", "o", "r", "e", " ", "c", "o", "n", "c", "i", "s", "e">>,
      <<"l", "e", "s", "s", " ", "v", "e", "r", "b", "o", "s", "e">>,
      <<"j", "u", "s", "t", " ", "t", "h", "e", " ", "c", "o", "d", "e">>,
      <<"c", "o", "d", "e", " ", "o", "n", "l", "y">>,
      <<"w", "i", "t", "h", "o", "u", "t", " ", "e", "x", "p", "l", "a", "n", "a", "t", "i", "o", "n">>,
      <<"w", "i", "t", "h", "o", "u", "t", " ", "c", "o", "m", "m", "e", "n", "t", "s">>,
      <<"n", "o", " ", "c", "o", "m", "m", "e", "n", "t", "s">>,
      <<"d", "o", "n", "'", "t", " ", "e", "x", "p", "l", "a", "i", "n">>,
      <<"d", "o", "n", "t", " ", "e", "x", "p", "l", "a", "i", "n">>,
      <<"n", "o", " ", "p", "r", "o", "s", "e">>,
      <<"a", "s", " ", "b", "u", "l", "l", "e", "t">>,
      <<"a", "s", " ", "b", "u", "l", "l", "e", "t", "s">>,
      <<"i", "n", " ", "b", "u", "l", "l", "e", "t">>,
      <<"a", "s", " ", "a", " ", "l", "i", "s", "t">>,
      <<"i", "n", " ", "o", "n", "e", " ", "l", "i", "n", "e">>,
      <<"a", "s", " ", "o", "n", "e">>,
      <<"a", "s", " ", "a", " ", "s", "i", "n", "g", "l", "e">>,
      <<"a", "s", " ", "m", "a", "r", "k", "d", "o", "w", "n">>,
      <<"a", "s", " ", "a", " ", "t", "a", "b", "l", "e">>,
      <<"i", "n", " ", "p", "s", "e", "u", "d", "o", "c", "o", "d", "e">>,
      <<"f", "o", "r", "m", "a", "t", " ", "i", "t", " ", "a", "s">>,
      <<"f", "o", "r", "m", "a", "t", "t", "e", "d", " ", "a", "s">>,
      <<"f", "o", "r", "m", "a", "t", " ", "a", "s">>,
      <<"m", "o", "r", "e", " ", "r", "e", "a", "d", "a", "b", "l", "e">>>>

intentSignals ==
    <<<<"t", "h", "a", "t", "'", "s", " ", "n", "o", "t">>,
      <<"t", "h", "a", "t", "s", " ", "n", "o", "t">>,
      <<"n", "o", "t", " ", "q", "u", "i", "t", "e">>,
      <<"n", "o", "t", " ", "e", "x", "a", "c", "t", "l", "y">>,
      <<"n", "o", "t", " ", "w", "h", "a", "t", " ", "i">>,
      <<"n", "o", "t", " ", "w", "h", "a", "t", " ", "i", " ", "a", "s", "k", "e", "d">>,
      <<"n", "o", "t", " ", "w", "h", "a", "t", " ", "i", " ", "w", "a", "n", "t">>,
      <<"n", "o", "t", " ", "w", "h", "a", "t", " ", "i", "'", "m", " ", "l", "o", "o", "k", "i", "n", "g">>,
      <<"n", "o", "t", " ", "l", "o", "o", "k", "i", "n", "g", " ", "f", "o", "r">>,
      <<"i", " ", "m", "e", "a", "n", "t">>,
      <<"w", "h", "a", "t", " ", "i", " ", "m", "e", "a", "n", "t">>,
      <<"i", " ", "w", "a", "s", " ", "a", "s", "k", "i", "n", "g">>,
      <<"i", "'", "m", " ", "a", "s", "k", "i", "n", "g", " ", "a", "b", "o", "u", "t">>,
      <<"y", "o", "u", " ", "m", "i", "s", "u", "n", "d", "e", "r", "s", "t", "o", "o", "d">>,
      <<"m", "i", "s", "u", "n", "d", "e", "r", "s", "t", "o", "o", "d">>,
      <<"y", "o", "u", " ", "m", "i", "s", "s", "e", "d">>,
      <<"y", "o", "u", " ", "m", "i", "s", "s", "e", "d", " ", "t", "h", "e", " ", "p", "o", "i", "n", "t">>,
      <<"y", "o", "u", " ", "g", "o", "t", " ", "i", "t", " ", "w", "r", "o", "n", "g">>,
      <<"y", "o", "u", "'", "r", "e", " ", "o", "f", "f", " ", "t", "r", "a", "c", "k">>,
      <<"y", "o", "u", "r", "e", " ", "o", "f", "f", " ", "t", "r", "a", "c", "k">>,
      <<"t", "h", "a", "t", "'", "s", " ", "i", "n", "c", "o", "r", "r", "e", "c", "t">>,
      <<"t", "h", "a", "t", "s", " ", "i", "n", "c", "o", "r", "r", "e", "c", "t">>,
      <<"t", "h", "a", "t", "'", "s", " ", "t", "h", "e", " ", "w", "r", "o", "n", "g">>,
      <<"t", "h", "a", "t", "s", " ", "t", "h", "e", " ", "w", "r", "o", "n", "g">>,
      <<"t", "h", "a", "t", "'", "s", " ", "n", "o", "t", " ", "i", "t">>,
      <<"t", "h", "a", "t", "s", " ", "n", "o", "t", " ", "i", "t">>,
      <<"c", "o", "m", "p", "l", "e", "t", "e", "l", "y", " ", "w", "r", "o", "n", "g">>,
      <<"t", "o", "t", "a", "l", "l", "y", " ", "w", "r", "o", "n", "g">>,
      <<"b", "e", "s", "i", "d", "e", " ", "t", "h", "e", " ", "p", "o", "i", "n", "t">>,
      <<"l", "e", "t", " ", "m", "e", " ", "r", "e", "p", "h", "r", "a", "s", "e">>,
      <<"l", "e", "t", " ", "m", "e", " ", "c", "l", "a", "r", "i", "f", "y">>,
      <<"n", "o", "t", " ", "r", "i", "g", "h", "t">>>>

clarificationSignals ==
    <<<<"c", "o", "u", "l", "d", " ", "y", "o", "u", " ", "c", "l", "a", "r", "i", "f", "y">>,
      <<"c", "a", "n", " ", "y", "o", "u", " ", "c", "l", "a", "r", "i", "f", "y">>,
      <<"w", "h", "a", "t", " ", "d", "o", " ", "y", "o", "u", " ", "m", "e", "a", "n">>,
      <<"d", "o", " ", "y", "o", "u", " ", "w", "a", "n", "t">>,
      <<"w", "h", "i", "c", "h", " ", "d", "o", " ", "y", "o", "u">>,
      <<"c", "a", "n", " ", "y", "o", "u", " ", "s", "p", "e", "c", "i", "f", "y">>,
      <<"a", "r", "e", " ", "y", "o", "u", " ", "r", "e", "f", "e", "r", "r", "i", "n", "g">>,
      <<"c", "o", "u", "l", "d", " ", "y", "o", "u", " ", "p", "r", "o", "v", "i", "d", "e", " ", "m", "o", "r", "e">>,
      <<"w", "h", "a", "t", " ", "t", "y", "p", "e", " ", "o", "f">>,
      <<"w", "h", "a", "t", " ", "k", "i", "n", "d", " ", "o", "f">>,
      <<"c", "a", "n", " ", "y", "o", "u", " ", "e", "l", "a", "b", "o", "r", "a", "t", "e">>,
      <<"w", "h", "a", "t", " ", "e", "x", "a", "c", "t", "l", "y">>,
      <<"c", "o", "u", "l", "d", " ", "y", "o", "u", " ", "e", "l", "a", "b", "o", "r", "a", "t", "e">>>>

(***************************************************************************)
(* clarity.go: text extraction and signal detection.                       *)
(***************************************************************************)
\* message.content as raw JSON, by what its first byte and its decoding give:
\* a JSON string, an array of content blocks, nothing, or anything else.
StringContent(s) == [form |-> "string", valid |-> TRUE, text |-> s, blocks |-> <<>>]

\* Starts with a quote but does not decode.
BadStringContent == [form |-> "string", valid |-> FALSE, text |-> <<>>, blocks |-> <<>>]

BlocksContent(bs) == [form |-> "array", valid |-> TRUE, text |-> <<>>, blocks |-> bs]

EmptyContent == [form |-> "empty", valid |-> TRUE, text |-> <<>>, blocks |-> <<>>]

\* A JSON object, number, ... : first byte neither a quote nor a bracket.
OtherContent == [form |-> "other", valid |-> TRUE, text |-> <<>>, blocks |-> <<>>]

Block(type, text) == [Type |-> type, Text |-> text]

RECURSIVE JoinParts(_)
\* extractText's loop and strings.Join(parts, "\n") over the blocks.
JoinParts(bs) ==
    IF bs = <<>> THEN <<>>
    ELSE LET b == Head(bs)
             rest == JoinParts(Tail(bs))
             restHasPart == \E k \in DOMAIN Tail(bs) :
                               Tail(bs)[k].Type = "text" /\ Tail(bs)[k].Text # <<>>
         IN IF b.Type = "text" /\ b.Text # <<>>
            THEN IF restHasPart THEN b.Text \o <<"\n">> \o rest ELSE b.Text
            ELSE rest

extractText(raw) ==
    IF raw.form = "empty" THEN <<>>
    ELSE IF raw.form = "string" THEN (IF raw.valid THEN raw.text ELSE <<>>)
    ELSE IF raw.form = "array" THEN (IF raw.valid THEN JoinParts(raw.blocks) ELSE <<>>)
    ELSE <<>>

isRealUserMessage(rec) ==
    IF rec.Type # "user" THEN FALSE
    ELSE IF rec.Content.form = "empty" THEN FALSE
    ELSE IF rec.Content.form = "string" THEN TRUE
    ELSE IF rec.Content.form = "array"
         THEN IF ~rec.Content.valid THEN FALSE
              ELSE IF Len(rec.Content.blocks) = 0 THEN FALSE
              ELSE rec.Content.blocks[1].Type # "tool_result"
    ELSE FALSE

containsAny(s, phrases) == \E k \in DOMAIN phrases : Contains(s, phrases[k])

\* detectCorrectionType looks at the first 200 bytes only.
PreviewLen == 200

\* detectCorrectionType with the intent phrases looked for before the format
\* phrases.
detectCorrectionTypeIntentFirst(text) ==
    LET lower == toLower(text)
        preview == IF Len(lower) > PreviewLen THEN SubSeq(lower, 1, PreviewLen) ELSE lower
        wb == containsAny(preview, walkbackSignals)
    IN IF wb /\ containsAny(preview, scopePhrases) THEN [ctype |-> "scope", ok |-> TRUE]
       ELSE IF containsAny(preview, intentSignals) THEN [ctype |-> "intent", ok |-> TRUE]
       ELSE IF wb /\ containsAny(preview, formatPhrases) THEN [ctype |-> "format", ok |-> TRUE]
       ELSE IF wb THEN [ctype |-> "intent", ok |-> TRUE]
       ELSE [ctype |-> "", ok |-> FALSE]

\* The pair (type, ok) of detectCorrectionType.
detectCorrectionType(text) ==
    LET lower == toLower(text)
        preview == IF Len(lower) > PreviewLen THEN SubSeq(lower, 1, PreviewLen) ELSE lower
        wb == containsAny(preview, walkbackSignals)
    IN IF wb /\ containsAny(preview, scopePhrases) THEN [ctype |-> "scope", ok |-> TRUE]
       ELSE IF wb /\ containsAny(preview, formatPhrases) THEN [ctype |-> "format", ok |-> TRUE]
       ELSE IF containsAny(preview, intentSignals) THEN [ctype |-> "intent", ok |-> TRUE]
       ELSE IF wb THEN [ctype |-> "intent", ok |-> TRUE]
       ELSE [ctype |-> "", ok |-> FALSE]

hasClarificationSignal(text) == containsAny(toLower(text), clarificationSignals)

\* Days are counted from the zero time, 1 January of year 1, a Monday.
DaysPerWeek == 7

\* mondayOf(t), as the day number of that Monday.
mondayOf(ts) == DateOf(ts) - (DateOf(ts) % DaysPerWeek)

(***************************************************************************)
(* ComputeClarity: inputs.                                                 *)
(***************************************************************************)
\* User prompts: a clean one, a scope walk-back, a format walk-back.
TextClean == <<"t", "e", "s", "t">>

TextScope == <<"N", "o", ",", " ", "o", "n", "l", "y", " ", "t", "h", "e", " ", "A", "P", "I">>

TextFormat == <<"a", "c", "t", "u", "a", "l", "l", "y", " ", "i", "n", " ", "j", "s", "o", "n">>

UserTexts == {TextClean, TextScope, TextFormat}

\* Assistant replies: one that asks back, one that does not.
TextAsk == <<"W", "h", "a", "t", " ", "d", "o", " ", "y", "o", "u", " ", "m", "e", "a", "n">>

TextDone == <<"d", "o", "n", "e">>

\* A week before the recent records, same weekday.
TimeWeekAgo == StartNow - 24 * 7

TimeRecent == StartNow - 5

\* ComputeClarity's cutoff argument: none, or two days back.
ClarCutoffs == {0, StartNow - 48}

\* Local time is UTC plus a whole number of hours.
ZoneOffsets == {0, 7}

ClarRecord(type, sid, ts, content) ==
    [Type |-> type, SessionID |-> sid, Timestamp |-> ts, Content |-> content]

\* The records ParseFileAllRecords may return.
ClarRecords ==
    {ClarRecord("user", sid, TimeRecent, StringContent(t)) : sid \in SessionIDs, t \in UserTexts}
    \cup {ClarRecord("user", sid, ts, StringContent(TextClean)) :
            sid \in SessionIDs, ts \in {0, TimeWeekAgo}}
    \cup {ClarRecord("assistant", sid, TimeRecent, c) :
            sid \in SessionIDs,
            c \in {BlocksContent(<<Block("tool_use", <<>>), Block("text", TextAsk)>>),
                   StringContent(TextDone)}}
    \cup {ClarRecord("user", "s1", TimeRecent, c) :
            c \in {BlocksContent(<<Block("tool_result", <<>>)>>),
                   BlocksContent(<<Block("text", TextClean), Block("text", TextClean)>>),
                   BlocksContent(<<>>), StringContent(<<>>), BadStringContent,
                   EmptyContent, OtherContent}}
    \cup {ClarRecord("assistant", "s1", TimeWeekAgo, BlocksContent(<<Block("tool_use", <<>>)>>)),
          ClarRecord("user", "", TimeRecent, StringContent(TextClean)),
          ClarRecord("system", "s2", TimeWeekAgo, StringContent(TextClean))}

(***************************************************************************)
(* ComputeClarity: the record loop.                                        *)
(***************************************************************************)
\* &sessionClarityState{correctionCounts: make(map[string]int)}
NewClarityState ==
    [userMessages |-> <<>>, firstAssistantText |-> <<>>, hadClarification |-> FALSE,
     correctionCount |-> 0, correctionCounts |-> EmptyMap, startTime |-> 0]

\* Lines 246-248: the record is older than the cutoff.
BeforeCutoff(rec, co) ==
    ~IsZeroTime(co) /\ ~IsZeroTime(rec.Timestamp) /\ rec.Timestamp < co

\* Lines 261-264.
TrackStart(st, rec) ==
    IF ~IsZeroTime(rec.Timestamp) /\ IsZeroTime(st.startTime)
    THEN [st EXCEPT !.startTime = rec.Timestamp] ELSE st

\* Lines 266-277, with the first message exempt from the correction check.
TrackUserCountsFirst(st, rec) ==
    IF isRealUserMessage(rec) /\ extractText(rec.Content) # <<>>
    THEN LET text == extractText(rec.Content)
             d == detectCorrectionType(text)
             st1 == IF d.ok
                    THEN [st EXCEPT !.correctionCounts =
                                        Put(@, d.ctype, Get(@, d.ctype, 0) + 1),
                                    !.correctionCount = @ + 1]
                    ELSE st
         IN [st1 EXCEPT !.userMessages = Append(@, text)]
    ELSE st

\* Lines 266-277 without the per-type count.
TrackUserDropsType(st, rec) ==
    IF isRealUserMessage(rec) /\ extractText(rec.Content) # <<>>
    THEN LET text == extractText(rec.Content)
             d == detectCorrectionType(text)
             st1 == IF Len(st.userMessages) >= 1 /\ d.ok
                    THEN [st EXCEPT !.correctionCount = @ + 1]
                    ELSE st
         IN [st1 EXCEPT !.userMessages = Append(@, text)]
    ELSE st

\* Lines 266-277.
TrackUser(st, rec) ==
    IF isRealUserMessage(rec) /\ extractText(rec.Content) # <<>>
    THEN LET text == extractText(rec.Content)
             d == detectCorrectionType(text)
             st1 == IF Len(st.userMessages) >= 1 /\ d.ok
                    THEN [st EXCEPT !.correctionCounts =
                                        Put(@, d.ctype, Get(@, d.ctype, 0) + 1),
                                    !.correctionCount = @ + 1]
                    ELSE st
         IN [st1 EXCEPT !.userMessages = Append(@, text)]
    ELSE st

\* TrackAssistant without the test that no reply text is recorded yet: every
\* assistant record with text decides the flag again.
TrackAssistantEveryReply(st, rec) ==
    IF rec.Type = "assistant" /\ extractText(rec.Content) # <<>>
    THEN [st EXCEPT !.firstAssistantText = extractText(rec.Content),
                    !.hadClarification = hasClarificationSignal(extractText(rec.Content))]
    ELSE st

\* Lines 279-285.
TrackAssistant(st, rec) ==
    IF rec.Type = "assistant" /\ st.firstAssistantText = <<>>
       /\ extractText(rec.Content) # <<>>
    THEN [st EXCEPT !.firstAssistantText = extractText(rec.Content),
                    !.hadClarification = hasClarificationSignal(extractText(rec.Content))]
    ELSE st

\* Lines 246-252: the record is neither older than the cutoff nor without a
\* session id, so the loop body reaches the session's state.
Tracked(rec, co) == ~BeforeCutoff(rec, co) /\ rec.SessionID # ""

\* Lines 244-286: the body of the record loop for one record.
TrackRecord(sm, rec, co) ==
    IF ~Tracked(rec, co) THEN sm
    ELSE LET st == Get(sm, rec.SessionID, NewClarityState)
         IN Put(sm, rec.SessionID, TrackAssistant(TrackUser(TrackStart(st, rec), rec), rec))

(***************************************************************************)
(* ComputeClarity: per-session metrics and the report.                     *)
(***************************************************************************)
\* The score with the weights of the two rates exchanged.
ScoreOfSwapped(frontLoad, corrRate, clarRate) ==
    FracNorm(FracAdd(FracMul(Frac(40, 1), frontLoad),
             FracAdd(FracMul(Frac(25, 1), FracSub(FracOne, corrRate)),
                     FracMul(Frac(35, 1), FracSub(FracOne, clarRate)))))

\* Line 326: 100 * (0.40*frontLoad + 0.35*(1-corrRate) + 0.25*(1-clarRate)).
ScoreOf(frontLoad, corrRate, clarRate) ==
    FracNorm(FracAdd(FracMul(Frac(40, 1), frontLoad),
             FracAdd(FracMul(Frac(35, 1), FracSub(FracOne, corrRate)),
                     FracMul(Frac(25, 1), FracSub(FracOne, clarRate)))))

\* The denominator taken as the number of user messages.
CorrDenomAllMessages(userMsgCount) == IF userMsgCount < 1 THEN 1 ELSE userMsgCount

\* Lines 306-309.
CorrDenom(userMsgCount) == IF userMsgCount - 1 < 1 THEN 1 ELSE userMsgCount - 1

RECURSIVE TotalLen(_)
\* Lines 316-319.
TotalLen(msgs) == IF msgs = <<>> THEN 0 ELSE Len(Head(msgs)) + TotalLen(Tail(msgs))

\* Lines 301-343: the sessionMetrics of one state with at least one user message.
MetricsOf(st) ==
    LET denom == CorrDenom(Len(st.userMessages))
        raw == Frac(st.correctionCount, denom)
        corrRate == IF FracLt(FracOne, raw) THEN FracOne ELSE FracNorm(raw)
        totalLen == TotalLen(st.userMessages)
        frontLoad == IF totalLen > 0
                     THEN FracNorm(Frac(Len(st.userMessages[1]), totalLen))
                     ELSE FracZero
        clarRate == IF st.hadClarification THEN FracOne ELSE FracZero
    IN [corrRate |-> corrRate, clarRate |-> clarRate, frontLoad |-> frontLoad,
        score |-> ScoreOf(frontLoad, corrRate, clarRate),
        startTime |-> st.startTime,
        correctionsByType |->
            [c \in DOMAIN st.correctionCounts |->
                FracNorm(Frac(st.correctionCounts[c], denom))]]

\* allMetrics, keyed by session id; sessions without user messages are skipped.
\* The slice's order follows the map iteration and only matters to the
\* rounding of the float sums, which exact fractions do not have.
AllMetricsOf(sm) ==
    [s \in {x \in DOMAIN sm : Len(sm[x].userMessages) > 0} |-> MetricsOf(sm[s])]

RECURSIVE FracSumOver(_, _)
\* Sum of the fractions f[x] over the finite set S.
FracSumOver(f, S) ==
    IF S = {} THEN FracZero
    ELSE LET x == CHOOSE y \in S : TRUE
         IN FracNorm(FracAdd(f[x], FracSumOver(f, S \ {x})))

\* The sum left undivided.
SumNotMean(vals, S) == FracSumOver(vals, S)

\* The mean of field-selected values over the sessions S of am.
MeanOver(vals, S) == FracNorm(FracDivInt(FracSumOver(vals, S), Cardinality(S)))

\* Lines 352-374.
OverallOf(am) ==
    LET S == DOMAIN am
        types == UNION {DOMAIN am[s].correctionsByType : s \in S}
    IN [CorrectionRate |-> MeanOver([s \in S |-> am[s].corrRate], S),
        ClarificationRate |-> MeanOver([s \in S |-> am[s].clarRate], S),
        FrontLoadRatio |-> MeanOver([s \in S |-> am[s].frontLoad], S),
        Score |-> MeanOver([s \in S |-> am[s].score], S),
        CorrectionsByType |->
            [c \in types |->
                FracNorm(FracDivInt(
                    FracSumOver([s \in S |-> Get(am[s].correctionsByType, c, FracZero)], S),
                    Cardinality(S)))]]

\* Lines 376-420. WeekStart is kept as the Monday's day number, whose order
\* is the order of the formatted dates.
WeeklyOf(am) ==
    LET timed == {s \in DOMAIN am : ~IsZeroTime(am[s].startTime)}
        weeks == SortedSeq({mondayOf(am[s].startTime) : s \in timed})
    IN [k \in DOMAIN weeks |->
          LET S == {s \in timed : mondayOf(am[s].startTime) = weeks[k]}
          IN [WeekStart |-> weeks[k],
              CorrectionRate |-> MeanOver([s \in S |-> am[s].corrRate], S),
              ClarificationRate |-> MeanOver([s \in S |-> am[s].clarRate], S),
              FrontLoadRatio |-> MeanOver([s \in S |-> am[s].frontLoad], S),
              Score |-> MeanOver([s \in S |-> am[s].score], S),
              SessionCount |-> Cardinality(S)]]

HoursPerDay == 24

\* m.startTime.Local().Hour() in a zone tz hours east of UTC.
LocalHour(ts, tz) == (ts + tz) % HoursPerDay

\* Lines 422-449: the 24 buckets, Score -1 where no session started.
HourlyBucketsOf(am, tz) ==
    [h \in 0..(HoursPerDay - 1) |->
        LET S == {s \in DOMAIN am :
                    ~IsZeroTime(am[s].startTime) /\ LocalHour(am[s].startTime, tz) = h}
        IN IF S = {}
           THEN [Hour |-> h, Score |-> Frac(0 - 1, 1), SessionCount |-> 0]
           ELSE [Hour |-> h, Score |-> MeanOver([s \in S |-> am[s].score], S),
                 SessionCount |-> Cardinality(S)]]

RECURSIVE HourFold(_, _, _)
\* Lines 436-448: the running best and worst hour from hour h on.
HourFold(buckets, h, acc0) ==
    IF h >= HoursPerDay THEN acc0
    ELSE LET b == buckets[h]
             a1 == IF b.SessionCount > 0 /\ FracLt(acc0.bestScore, b.Score)
                   THEN [acc0 EXCEPT !.bestScore = b.Score, !.bestHour = h] ELSE acc0
             a2 == IF b.SessionCount > 0 /\ FracLt(b.Score, a1.worstScore)
                   THEN [a1 EXCEPT !.worstScore = b.Score, !.worstHour = h] ELSE a1
         IN HourFold(buckets, h + 1, a2)

\* Lines 432-459.
BestWorstOf(buckets) ==
    LET f == HourFold(buckets, 0,
                      [bestHour |-> 0 - 1, worstHour |-> 0 - 1,
                       bestScore |-> Frac(0 - 1, 1), worstScore |-> Frac(101, 1)])
        hoursWithData == Cardinality({h \in DOMAIN buckets :
                                        FracLe(FracZero, buckets[h].Score)})
    IN IF hoursWithData < 2 THEN [bestHour |-> 0 - 1, worstHour |-> 0 - 1]
       ELSE [bestHour |-> f.bestHour, worstHour |-> f.worstHour]

\* A *float64: nil, or a value.
NilDelta == [set |-> FALSE, v |-> FracZero]

ZeroClarityMetrics ==
    [CorrectionRate |-> FracZero, ClarificationRate |-> FracZero,
     FrontLoadRatio |-> FracZero, Score |-> FracZero, CorrectionsByType |-> EmptyMap]

\* &ClarityReport{SessionCount: n}: every other field has its zero value.
SessionCountOnly(n) ==
    [Overall |-> ZeroClarityMetrics, Weekly |-> <<>>, SessionCount |-> n,
     HourlyBuckets |-> <<>>, BestHour |-> 0, WorstHour |-> 0, Tips |-> <<>>,
     ScoreDelta |-> NilDelta]

\* The early return taken only for no session at all.
InsufficientBelowOne(sessionCount) == sessionCount < 1

\* Line 348.
Insufficient(sessionCount) == sessionCount < 2

(***************************************************************************)
(* Coaching tips: the insight levels, the tip banks, the selectors.        *)
(***************************************************************************)
\* CorrectionRateInsight with "good" below 0.05 only.
CorrectionRateInsightStrict(r) ==
    IF FracLt(r, Frac(5, 100)) THEN "good"
    ELSE IF FracLt(r, Frac(25, 100)) THEN "ok"
    ELSE "warn"

\* The Level of CorrectionRateInsight(r).
CorrectionRateInsight(r) ==
    IF FracLt(r, Frac(10, 100)) THEN "good"
    ELSE IF FracLt(r, Frac(25, 100)) THEN "ok"
    ELSE "warn"

\* The Level of ClarificationRateInsight(r).
ClarificationRateInsight(r) ==
    IF FracLt(r, Frac(15, 100)) THEN "good"
    ELSE IF FracLt(r, Frac(35, 100)) THEN "ok"
    ELSE "warn"

\* The Level of FrontLoadRatioInsight(r).
FrontLoadRatioInsight(r) ==
    IF FracLt(Frac(60, 100), r) THEN "good"
    ELSE IF FracLt(Frac(40, 100), r) THEN "ok"
    ELSE "warn"

\* The tips carry Metric, SubMetric, Level and Headline; the prose fields
\* Technique, WeakEx and StrongEx play no part in the selection.
tipBank ==
    ("correction_rate_warn" :>
        <<[Metric |-> "correction_rate", SubMetric |-> "", Level |-> "warn",
           Headline |-> "Write a spec comment first"],
          [Metric |-> "correction_rate", SubMetric |-> "", Level |-> "warn",
           Headline |-> "State all constraints upfront"]>>)
    @@
    ("correction_rate_ok" :>
        <<[Metric |-> "correction_rate", SubMetric |-> "", Level |-> "ok",
           Headline |-> "Add a 'do not' line"],
          [Metric |-> "correction_rate", SubMetric |-> "", Level |-> "ok",
           Headline |-> "End with the acceptance criterion"]>>)
    @@
    ("clarification_rate_warn" :>
        <<[Metric |-> "clarification_rate", SubMetric |-> "", Level |-> "warn",
           Headline |-> "Specify output format explicitly"],
          [Metric |-> "clarification_rate", SubMetric |-> "", Level |-> "warn",
           Headline |-> "Add a scope boundary"]>>)
    @@
    ("clarification_rate_ok" :>
        <<[Metric |-> "clarification_rate", SubMetric |-> "", Level |-> "ok",
           Headline |-> "State the output medium"],
          [Metric |-> "clarification_rate", SubMetric |-> "", Level |-> "ok",
           Headline |-> "Give a length budget"]>>)
    @@
    ("front_load_ratio_warn" :>
        <<[Metric |-> "front_load_ratio", SubMetric |-> "", Level |-> "warn",
           Headline |-> "Paste everything in the first message"],
          [Metric |-> "front_load_ratio", SubMetric |-> "", Level |-> "warn",
           Headline |-> "Use a prompt template"]>>)
    @@
    ("front_load_ratio_ok" :>
        <<[Metric |-> "front_load_ratio", SubMetric |-> "", Level |-> "ok",
           Headline |-> "Lead with the relevant code"],
          [Metric |-> "front_load_ratio", SubMetric |-> "", Level |-> "ok",
           Headline |-> "Paste error output with the question"]>>)
    @@
    ("correction_scope_warn" :>
        <<[Metric |-> "correction_rate", SubMetric |-> "scope", Level |-> "warn",
           Headline |-> "Write a constraints block"],
          [Metric |-> "correction_rate", SubMetric |-> "scope", Level |-> "warn",
           Headline |-> "Scope the task by file, not topic"]>>)
    @@
    ("correction_scope_ok" :>
        <<[Metric |-> "correction_rate", SubMetric |-> "scope", Level |-> "ok",
           Headline |-> "List what must stay unchanged"],
          [Metric |-> "correction_rate", SubMetric |-> "scope", Level |-> "ok",
           Headline |-> "Use 'Only X, nothing else'"]>>)
    @@
    ("correction_format_warn" :>
        <<[Metric |-> "correction_rate", SubMetric |-> "format", Level |-> "warn",
           Headline |-> "Specify output medium first"],
          [Metric |-> "correction_rate", SubMetric |-> "format", Level |-> "warn",
           Headline |-> "End with a format line"]>>)
    @@
    ("correction_format_ok" :>
        <<[Metric |-> "correction_rate", SubMetric |-> "format", Level |-> "ok",
           Headline |-> "Name the anti-format explicitly"],
          [Metric |-> "correction_rate", SubMetric |-> "format", Level |-> "ok",
           Headline |-> "Give a length budget"]>>)
    @@
    ("correction_intent_warn" :>
        <<[Metric |-> "correction_rate", SubMetric |-> "intent", Level |-> "warn",
           Headline |-> "Lead with the task, not the context"],
          [Metric |-> "correction_rate", SubMetric |-> "intent", Level |-> "warn",
           Headline |-> "State the goal, not just the action"]>>)
    @@
    ("correction_intent_ok" :>
        <<[Metric |-> "correction_rate", SubMetric |-> "intent", Level |-> "ok",
           Headline |-> "Anchor with an example"],
          [Metric |-> "correction_rate", SubMetric |-> "intent", Level |-> "ok",
           Headline |-> "Use 'I want X, not Y'"]>>)

\* The bank of the single-tip selector: no SubMetric, no per-type keys.
tipBankSingle ==
    ("correction_rate_warn" :>
        <<[Metric |-> "correction_rate", Level |-> "warn",
           Headline |-> "Write a spec comment first"],
          [Metric |-> "correction_rate", Level |-> "warn",
           Headline |-> "State all constraints upfront"]>>)
    @@
    ("correction_rate_ok" :>
        <<[Metric |-> "correction_rate", Level |-> "ok",
           Headline |-> "Add a 'do not' line"],
          [Metric |-> "correction_rate", Level |-> "ok",
           Headline |-> "End with the acceptance criterion"]>>)
    @@
    ("clarification_rate_warn" :>
        <<[Metric |-> "clarification_rate", Level |-> "warn",
           Headline |-> "Specify output format explicitly"],
          [Metric |-> "clarification_rate", Level |-> "warn",
           Headline |-> "Add a scope boundary"]>>)
    @@
    ("clarification_rate_ok" :>
        <<[Metric |-> "clarification_rate", Level |-> "ok",
           Headline |-> "State the output medium"],
          [Metric |-> "clarification_rate", Level |-> "ok",
           Headline |-> "Give a length budget"]>>)
    @@
    ("front_load_ratio_warn" :>
        <<[Metric |-> "front_load_ratio", Level |-> "warn",
           Headline |-> "Paste everything in the first message"],
          [Metric |-> "front_load_ratio", Level |-> "warn",
           Headline |-> "Use a prompt template"]>>)
    @@
    ("front_load_ratio_ok" :>
        <<[Metric |-> "front_load_ratio", Level |-> "ok",
           Headline |-> "Lead with the relevant code"],
          [Metric |-> "front_load_ratio", Level |-> "ok",
           Headline |-> "Paste error output with the question"]>>)

\* max(x, 0)
ClampGap(g) == IF FracLt(g, FracZero) THEN FracZero ELSE g

\* corrGap, clarGap, frontGap.
CorrGap(o) == ClampGap(FracSub(o.CorrectionRate, Frac(10, 100)))

ClarGap(o) == ClampGap(FracSub(o.ClarificationRate, Frac(15, 100)))

FrontGap(o) ==
    ClampGap(FracMul(FracSub(Frac(60, 100), o.FrontLoadRatio), Frac(100, 60)))

\* WorstOf with the comparisons strict, so that on equal gaps the later
\* metric is taken.
WorstOfLaterOnTies(o) ==
    IF FracLt(ClarGap(o), CorrGap(o)) /\ FracLt(FrontGap(o), CorrGap(o))
    THEN [metric |-> "correction_rate", level |-> CorrectionRateInsight(o.CorrectionRate)]
    ELSE IF FracLt(FrontGap(o), ClarGap(o))
    THEN [metric |-> "clarification_rate",
          level |-> ClarificationRateInsight(o.ClarificationRate)]
    ELSE [metric |-> "front_load_ratio", level |-> FrontLoadRatioInsight(o.FrontLoadRatio)]

\* The weakest metric and its level.
WorstOf(o) ==
    IF FracLe(ClarGap(o), CorrGap(o)) /\ FracLe(FrontGap(o), CorrGap(o))
    THEN [metric |-> "correction_rate", level |-> CorrectionRateInsight(o.CorrectionRate)]
    ELSE IF FracLe(FrontGap(o), ClarGap(o))
    THEN [metric |-> "clarification_rate",
          level |-> ClarificationRateInsight(o.ClarificationRate)]
    ELSE [metric |-> "front_load_ratio", level |-> FrontLoadRatioInsight(o.FrontLoadRatio)]

AllGood(o) ==
    /\ CorrectionRateInsight(o.CorrectionRate) = "good"
    /\ ClarificationRateInsight(o.ClarificationRate) = "good"
    /\ FrontLoadRatioInsight(o.FrontLoadRatio) = "good"

\* The bucket of a key, empty when the key is absent.
Bucket(bank, key) == IF key \in DOMAIN bank THEN bank[key] ELSE <<>>

CorrectionTypes == <<"scope", "format", "intent">>

\* TypeTips without the test for a zero rate: a tip for every type that has a
\* bucket.
RECURSIVE TypeTipsEveryType(_, _, _)
TypeTipsEveryType(o, level, k) ==
    IF k > Len(CorrectionTypes) THEN {<<>>}
    ELSE LET ctype == CorrectionTypes[k]
             rest == TypeTipsEveryType(o, level, k + 1)
             bucket == Bucket(tipBank, "correction_" \o ctype \o "_" \o level)
         IN IF Len(bucket) = 0
            THEN rest
            ELSE {<<bucket[i]>> \o r : i \in DOMAIN bucket, r \in rest}

RECURSIVE TypeTips(_, _, _)
\* The per-type loop: every list of tips it can build from type k on, one
\* rand.Intn pick per type present with a non-zero rate.
TypeTips(o, level, k) ==
    IF k > Len(CorrectionTypes) THEN {<<>>}
    ELSE LET ctype == CorrectionTypes[k]
             rest == TypeTips(o, level, k + 1)
             bucket == Bucket(tipBank, "correction_" \o ctype \o "_" \o level)
         IN IF Get(o.CorrectionsByType, ctype, FracZero).num = 0 \/ Len(bucket) = 0
            THEN rest
            ELSE {<<bucket[i]>> \o r : i \in DOMAIN bucket, r \in rest}

\* The generic single tip: every list the rand.Intn pick can give.
GenericTips(bank, w) ==
    LET b1 == Bucket(bank, w.metric \o "_" \o w.level)
        b2 == IF Len(b1) = 0 THEN Bucket(bank, w.metric \o "_warn") ELSE b1
    IN IF Len(b2) = 0 THEN {<<>>} ELSE {<<b2[i]>> : i \in DOMAIN b2}

\* SelectCoachingTips without the return for a weakest metric at good level.
SelectCoachingTipsForGoodToo(r) ==
    IF r.SessionCount < 2 THEN {<<>>}
    ELSE IF AllGood(r.Overall) THEN {<<>>}
    ELSE LET o == r.Overall
             w == WorstOf(o)
             typed == IF w.metric = "correction_rate"
                         /\ DOMAIN o.CorrectionsByType # {}
                      THEN TypeTips(o, w.level, 1) ELSE {<<>>}
         IN IF typed # {<<>>} THEN typed ELSE GenericTips(tipBank, w)

\* SelectCoachingTips(r): the set of lists it can return; <<>> stands for nil.
SelectCoachingTips(r) ==
    IF r.SessionCount < 2 THEN {<<>>}
    ELSE IF AllGood(r.Overall) THEN {<<>>}
    ELSE LET o == r.Overall
             w == WorstOf(o)
         IN IF w.level = "good" THEN {<<>>}
            ELSE LET typed == IF w.metric = "correction_rate"
                                 /\ DOMAIN o.CorrectionsByType # {}
                              THEN TypeTips(o, w.level, 1) ELSE {<<>>}
                 IN IF typed # {<<>>} THEN typed ELSE GenericTips(tipBank, w)

\* SelectCoachingTip(r) in ISO week `week`: a list of one tip, <<>> for nil.
SelectCoachingTip(r, week) ==
    IF r.SessionCount < 2 THEN <<>>
    ELSE IF AllGood(r.Overall) THEN <<>>
    ELSE LET w == WorstOf(r.Overall)
             b1 == Bucket(tipBankSingle, w.metric \o "_" \o w.level)
             tips == IF Len(b1) = 0 THEN Bucket(tipBankSingle, w.metric \o "_warn") ELSE b1
         IN IF w.level = "good" THEN <<>>
            ELSE IF Len(tips) = 0 THEN <<>>
            ELSE <<tips[(week % Len(tips)) + 1]>>

\* computeWeekDelta
computeWeekDelta(weekly) ==
    IF Len(weekly) < 2 THEN NilDelta
    ELSE [set |-> TRUE,
          v |-> FracNorm(FracSub(weekly[Len(weekly)].Score, weekly[Len(weekly) - 1].Score))]

(***************************************************************************)
(* ComputeClarity as a state machine: one step per file, one per record,   *)
(* one for everything after the loops.                                     *)
(***************************************************************************)
\* No report yet.
NoClarity == [Returned |-> FALSE]

ClarInit ==
    /\ clarCutoff \in ClarCutoffs
    /\ stateMap = EmptyMap
    /\ clarOpen = FALSE
    /\ clarPc = "run"
    /\ nClarFiles = 0
    /\ nClarRecs = 0
    /\ allMetrics = EmptyMap
    /\ clarity = NoClarity
    /\ replied = {}

\* The state of ComputeClarity while another component is exercised.
ClarIdle ==
    /\ clarCutoff = 0
    /\ stateMap = EmptyMap
    /\ clarOpen = FALSE
    /\ clarPc = "idle"
    /\ nClarFiles = 0
    /\ nClarRecs = 0
    /\ allMetrics = EmptyMap
    /\ clarity = NoClarity
    /\ replied = {}

\* Lines 237-242: the next file of the list; only session files are read.
ClarFile(kind) ==
    /\ clarPc = "run"
    /\ nClarFiles < MaxClarFiles
    /\ nClarFiles' = nClarFiles + 1
    /\ clarOpen' = (kind = KindSession)
    /\ UNCHANGED <<clarCutoff, stateMap, clarPc, nClarRecs, allMetrics, clarity, replied>>
    /\ UNCHANGED notClarVars

\* Lines 244-286: the next record of the file being read.
ClarRecordStep(rec) ==
    /\ clarPc = "run"
    /\ clarOpen
    /\ nClarRecs < MaxClarRecs
    /\ nClarRecs' = nClarRecs + 1
    /\ stateMap' = TrackRecord(stateMap, rec, clarCutoff)
    /\ replied' = IF Tracked(rec, clarCutoff) /\ rec.Type = "assistant"
                  THEN replied \cup {rec.SessionID}
                  ELSE replied
    /\ UNCHANGED <<clarCutoff, clarOpen, clarPc, nClarFiles, allMetrics, clarity>>
    /\ UNCHANGED notClarVars

\* Lines 467-476: the full report, for each outcome of the random tip picks.
FullReports(am, tz) ==
    LET weekly == WeeklyOf(am)
        buckets == HourlyBucketsOf(am, tz)
        bw == BestWorstOf(buckets)
        result == [Overall |-> OverallOf(am), Weekly |-> weekly,
                   SessionCount |-> Cardinality(DOMAIN am),
                   HourlyBuckets |-> buckets, BestHour |-> bw.bestHour,
                   WorstHour |-> bw.worstHour, Tips |-> <<>>, ScoreDelta |-> NilDelta]
    IN {[result EXCEPT !.Tips = tips, !.ScoreDelta = computeWeekDelta(weekly)] :
            tips \in SelectCoachingTips(result)}

\* Lines 288-477: the file list is exhausted; metrics, then the report.
ClarFinish(tz) ==
    /\ clarPc = "run"
    /\ \E am \in {AllMetricsOf(stateMap)} :
          /\ allMetrics' = am
          /\ IF Insufficient(Cardinality(DOMAIN am))
             THEN clarity' = [Returned |-> TRUE,
                              Report |-> SessionCountOnly(Cardinality(DOMAIN am))]
             ELSE \E r \in FullReports(am, tz) :
                      clarity' = [Returned |-> TRUE, Report |-> r]
    /\ clarPc' = "done"
    /\ clarOpen' = FALSE
    /\ UNCHANGED <<clarCutoff, stateMap, nClarFiles, nClarRecs, replied>>
    /\ UNCHANGED notClarVars

ClarNext ==
    \/ \E kind \in Kinds : ClarFile(kind)
    \/ \E rec \in ClarRecords : ClarRecordStep(rec)
    \/ \E tz \in ZoneOffsets : ClarFinish(tz)

(***************************************************************************)
(* The tip selectors on their own, over any report.                        *)
(***************************************************************************)
CorrectionRates ==
    {Frac(0, 1), Frac(1, 20), Frac(1, 10), Frac(1, 5), Frac(1, 4), Frac(3, 10), Frac(1, 1)}

ClarificationRates == {Frac(0, 1), Frac(1, 10), Frac(3, 20), Frac(1, 4), Frac(7, 20), Frac(1, 1)}

FrontLoadRatios ==
    {Frac(0, 1), Frac(2, 5), Frac(12, 25), Frac(1, 2), Frac(3, 5), Frac(7, 10), Frac(1, 1)}

\* CorrectionsByType: absent, one type, a type with rate 0 next to another.
TypeMaps ==
    {EmptyMap,
     ("scope" :> Frac(1, 10)),
     ("scope" :> Frac(0, 1)),
     ("format" :> Frac(0, 1)) @@ ("intent" :> Frac(1, 10)),
     ("scope" :> Frac(1, 20)) @@ ("format" :> Frac(1, 20)) @@ ("intent" :> Frac(1, 20))}

SessionCounts == {1, 2, 5}

\* time.Now().ISOWeek()
Weeks == {1, 2, 53}

\* A ClarityReport, as far as the selectors read it.
TipReports ==
    {[Overall |-> [CorrectionRate |-> cr, ClarificationRate |-> cl,
                   FrontLoadRatio |-> fl, Score |-> ScoreOf(fl, cr, cl),
                   CorrectionsByType |-> tm],
      SessionCount |-> n] :
        cr \in CorrectionRates, cl \in ClarificationRates, fl \in FrontLoadRatios,
        tm \in TypeMaps, n \in SessionCounts}

\* No call made yet.
NoTips == [Called |-> FALSE]

TipIdle ==
    /\ tipReport = [SessionCount |-> 0]
    /\ tipsOut = NoTips
    /\ tipOut = NoTips

TipInit ==
    /\ tipReport \in TipReports
    /\ tipsOut = NoTips
    /\ tipOut = NoTips

CallSelectCoachingTips ==
    /\ tipsOut = NoTips
    /\ \E tips \in SelectCoachingTips(tipReport) :
          tipsOut' = [Called |-> TRUE, Tips |-> tips]
    /\ UNCHANGED <<tipReport, tipOut>>
    /\ UNCHANGED notTipVars

CallSelectCoachingTip(week) ==
    /\ tipOut = NoTips
    /\ tipOut' = [Called |-> TRUE, Tips |-> SelectCoachingTip(tipReport, week)]
    /\ UNCHANGED <<tipReport, tipsOut>>
    /\ UNCHANGED notTipVars

TipNext ==
    \/ CallSelectCoachingTips
    \/ \E week \in Weeks : CallSelectCoachingTip(week)

(***************************************************************************)
(* Pure functions called on their own: one argument, one call.             *)
(***************************************************************************)
\* No call made yet.
NoCall == [Called |-> FALSE]

CallIdle ==
    /\ callArg = <<>>
    /\ callRet = NoCall

\* A family as it is, without its last or first character, with a character
\* put in front or behind, with a version suffix, in upper case.
ModelVariants(f) ==
    {f, SubSeq(f, 1, Len(f) - 1), Tail(f), <<"x">> \o f, f \o <<"x">>, f \o <<"-", "1">>,
     f \o <<"-", "2", "0", "2", "5", "0", "1", "0", "1">>,
     [i \in DOMAIN f |-> IF f[i] \in DOMAIN LowerOf THEN f[i]
                          ELSE IF \E k \in DOMAIN LowerLetters : LowerLetters[k] = f[i]
                               THEN UpperLetters[CHOOSE k \in DOMAIN LowerLetters :
                                                    LowerLetters[k] = f[i]]
                               ELSE f[i]]}

\* Model ids around every family of the table, and some far from all of them.
LookupModelIDs ==
    UNION {ModelVariants(pricingTable[i].Family) : i \in DOMAIN pricingTable}
    \cup {<<>>, <<"c", "l", "a", "u", "d", "e">>, ModelOpus, ModelUnknown, ModelFooBar}

LookupInit ==
    /\ callArg \in LookupModelIDs
    /\ callRet = NoCall

CallLookupPricing ==
    /\ callRet = NoCall
    /\ callRet' = [Called |-> TRUE, Ret |-> LookupPricing(callArg)]
    /\ UNCHANGED callArg
    /\ UNCHANGED notCallVars

\* Hour tables: the keys "3", "9", "14" and the unparsable "x", each absent or
\* with one of three counts.
PeakKeys == {<<"3">>, <<"9">>, <<"1", "4">>, <<"x">>}

PeakCounts == {0, 1, 4}

PeakTables ==
    UNION {[ks -> PeakCounts] : ks \in SUBSET PeakKeys}

PeakInit ==
    /\ callArg \in PeakTables
    /\ callRet = NoCall

\* One peakHour call; the map is iterated in any order.
CallPeakHour ==
    /\ callRet = NoCall
    /\ \E h \in peakHour(callArg) : callRet' = [Called |-> TRUE, Ret |-> h]
    /\ UNCHANGED callArg
    /\ UNCHANGED notCallVars

\* n filler characters.
Filler(n) == [i \in 1..n |-> "x"]

\* Texts for the detector: filler that leaves the phrases inside the first
\* 200 bytes, cuts them after the walk-back phrase, or pushes them out, then a
\* walk-back phrase or none, then a scope, a format and an intent phrase, each
\* present or not.
DetectTexts ==
    {pad \o wb \o sc \o fm \o it :
        pad \in {<<>>, Filler(PreviewLen - 4), Filler(PreviewLen)},
        wb \in {<<>>, <<"n", "o", ",", " ">>, <<"A", "c", "t", "u", "a", "l", "l", "y", " ">>},
        sc \in {<<>>, <<"o", "n", "l", "y", " ", "t", "h", "e", " ">>},
        fm \in {<<>>, <<"i", "n", " ", "J", "S", "O", "N", " ">>},
        it \in {<<>>, <<"i", " ", "m", "e", "a", "n", "t", " ", "x">>}}

DetectInit ==
    /\ callArg \in DetectTexts
    /\ callRet = NoCall

CallDetectCorrectionType ==
    /\ callRet = NoCall
    /\ callRet' = [Called |-> TRUE, Ret |-> detectCorrectionType(callArg)]
    /\ UNCHANGED callArg
    /\ UNCHANGED notCallVars

(***************************************************************************)
(* ParseFile on its own, and Aggregate's sum of its error counts.          *)
(***************************************************************************)
RECURSIVE ScanLines(_, _, _)
\* main.go 112-144: the scanner loop from line k on.
ScanLines(lines, k, st) ==
    IF k > Len(lines) THEN st
    ELSE LET line == lines[k]
             st1 == IF line.kind = "empty" THEN st
                    ELSE IF line.kind = "bad"
                    THEN [st EXCEPT !.parseErrors = @ + 1]
                    ELSE IF Kept(line, st.seen)
                    THEN [st EXCEPT !.records = Append(@, line),
                                    !.seen = IF line.UUID # "" THEN @ \cup {line.UUID}
                                             ELSE @]
                    ELSE st
         IN ScanLines(lines, k + 1, st1)

\* main.go 99-150. A file is the lines the scanner delivers, whether os.Open
\* succeeds, and whether scanner.Err() reports an error after the last line.
ParseFile(file) ==
    IF ~file.readable THEN [records |-> <<>>, parseErrors |-> 1]
    ELSE LET st == ScanLines(file.lines, 1,
                             [records |-> <<>>, seen |-> {}, parseErrors |-> 0])
         IN [records |-> st.records,
             parseErrors |-> st.parseErrors + IF file.scanErr THEN 1 ELSE 0]

\* The lines of the files parsed: an empty line, a line that does not decode,
\* a user record and a zero-usage assistant record with UUID u1, two
\* different assistant records with UUID u1, one without UUID.
ParseLines ==
    {[kind |-> "empty"], [kind |-> "bad"],
     [kind |-> "record", Type |-> "user", UUID |-> "u1", SessionID |-> "s1",
      Timestamp |-> StartNow - 5, CWD |-> <<>>, Model |-> <<>>,
      Usage |-> TokenUsage(0, 0, 0, 0)],
     [kind |-> "record", Type |-> "assistant", UUID |-> "u1", SessionID |-> "s1",
      Timestamp |-> StartNow - 5, CWD |-> <<>>, Model |-> ModelOpus,
      Usage |-> TokenUsage(0, 0, 0, 0)],
     UsageLine("u1", "s1", StartNow - 5, <<>>, ModelOpus, UsageSmall),
     UsageLine("u1", "s2", StartNow - 5, <<>>, ModelOpus, UsageLarge),
     UsageLine("", "s1", StartNow - 5, <<>>, ModelOpus, UsageSmall)}

ParseFiles ==
    {[lines |-> <<>>, readable |-> FALSE, scanErr |-> FALSE]}
    \cup {[lines |-> ls, readable |-> TRUE, scanErr |-> e] :
            ls \in UNION {[1..n -> ParseLines] : n \in 0..MaxParseLines},
            e \in BOOLEAN}

\* No file parsed yet, report.ParseErrors 0.
ParseInit ==
    /\ callArg = <<>>
    /\ callRet = [Called |-> FALSE, ParseErrors |-> 0, Files |-> 0]

\* Aggregate lines 39 and 54-55: the next file goes through ParseFile and its
\* error count is added to report.ParseErrors.
CallParseFile(file) ==
    /\ callRet.Files < MaxParseCalls
    /\ callArg' = file
    /\ callRet' = [Called |-> TRUE,
                   Records |-> ParseFile(file).records,
                   Errs |-> ParseFile(file).parseErrors,
                   ParseErrors |-> callRet.ParseErrors + ParseFile(file).parseErrors,
                   Files |-> callRet.Files + 1]
    /\ UNCHANGED notCallVars

(***************************************************************************)
(* server.go: the /api/report handler, run by one goroutine per request.   *)
(***************************************************************************)
Handlers == {"h1", "h2"}

\* What ParseStatsCache can find on disk.
CacheMorning == StatsCacheOf(Put(EmptyMap, <<"9">>, 4))

CacheAfternoon == StatsCacheOf(Put(EmptyMap, <<"1", "4">>, 4))

\* The Claude directory: the file list DiscoverFiles returns, as a version
\* number, and the stats cache.
Disks == [files : {1, 2}, stats : {CacheMorning, CacheAfternoon}]

NoResponse == [Sent |-> FALSE]

\* A handler between requests.
IdleHandler ==
    [pc |-> "idle", files |-> 0, sc |-> NoStatsCache, response |-> NoResponse, served |-> 0]

ServeIdle ==
    /\ srvDisk = [files |-> 0, stats |-> NoStatsCache]
    /\ srvOpts = [StatsCache |-> NoStatsCache]
    /\ handlers = [h \in {} |-> IdleHandler]

\* main.go 37-44: opts is built without a stats cache and handed to
\* ServeReport, whose handler closure captures it.
ServeInit ==
    /\ srvDisk \in Disks
    /\ srvOpts = [StatsCache |-> NoStatsCache]
    /\ handlers = [h \in Handlers |-> IdleHandler]

\* Sessions are written while the server runs.
DiskChanges(d) ==
    /\ d # srvDisk
    /\ srvDisk' = d
    /\ UNCHANGED <<srvOpts, handlers>>
    /\ UNCHANGED notSrvVars

\* server.go 39-43: files, err := DiscoverFiles(claudeDir).
Discover(h, ok) ==
    /\ handlers[h].pc = "idle"
    /\ handlers[h].served < MaxRequests
    /\ handlers' = [handlers EXCEPT ![h] =
                       IF ok
                       THEN [@ EXCEPT !.pc = "discovered", !.files = srvDisk.files,
                                      !.sc = NoStatsCache, !.response = NoResponse]
                       ELSE [@ EXCEPT !.served = @ + 1, !.files = 0, !.sc = NoStatsCache,
                                      !.response = NoResponse]]
    /\ UNCHANGED <<srvDisk, srvOpts>>
    /\ UNCHANGED notSrvVars

\* server.go 44, right-hand side: ParseStatsCache(claudeDir).
LoadStatsCache(h) ==
    /\ handlers[h].pc = "discovered"
    /\ handlers' = [handlers EXCEPT ![h] = [@ EXCEPT !.pc = "loaded", !.sc = srvDisk.stats]]
    /\ UNCHANGED <<srvDisk, srvOpts>>
    /\ UNCHANGED notSrvVars

\* server.go 44, the assignment: opts.StatsCache = ...
StoreStatsCache(h) ==
    /\ handlers[h].pc = "loaded"
    /\ srvOpts' = [srvOpts EXCEPT !.StatsCache = handlers[h].sc]
    /\ handlers' = [handlers EXCEPT ![h] = [@ EXCEPT !.pc = "stored"]]
    /\ UNCHANGED srvDisk
    /\ UNCHANGED notSrvVars

\* part_000 184-187: the peak hours Aggregate can report for a stats cache.
PeakOf(sc) == IF sc.present THEN peakHour(sc.HourCounts) ELSE {0 - 1}

\* server.go 45-51: Aggregate(files, opts) on a copy of opts as it is now, and
\* the report is encoded into the response.
Respond(h) ==
    /\ handlers[h].pc = "stored"
    /\ \E ph \in PeakOf(srvOpts.StatsCache) :
          handlers' = [handlers EXCEPT ![h] =
                          [@ EXCEPT !.pc = "idle", !.served = @ + 1,
                                    !.response = [Sent |-> TRUE, Files |-> handlers[h].files,
                                                  PeakHour |-> ph]]]
    /\ UNCHANGED <<srvDisk, srvOpts>>
    /\ UNCHANGED notSrvVars

ServeNext ==
    \/ \E d \in Disks : DiskChanges(d)
    \/ \E h \in Handlers, ok \in BOOLEAN : Discover(h, ok)
    \/ \E h \in Handlers : LoadStatsCache(h)
    \/ \E h \in Handlers : StoreStatsCache(h)
    \/ \E h \in Handlers : Respond(h)

(***************************************************************************)
(* Specifications.                                                         *)
(***************************************************************************)
\* One Aggregate pass over any list of files.
Init == AggInit /\ TotIdle /\ ClarIdle /\ TipIdle /\ CallIdle /\ ServeIdle

Next == AggNext

Spec == Init /\ [][Next]_vars

\* Any sequence of Add calls on one accumulator.
TotalsInit == AggIdle /\ TotInit /\ ClarIdle /\ TipIdle /\ CallIdle /\ ServeIdle

TotalsNext == TotNext

TotalsSpec == TotalsInit /\ [][TotalsNext]_vars

\* One ComputeClarity call over any list of files.
ClarityInit == AggIdle /\ TotIdle /\ ClarInit /\ TipIdle /\ CallIdle /\ ServeIdle

ClarityNext == ClarNext

ClaritySpec == ClarityInit /\ [][ClarityNext]_vars

\* One LookupPricing call on any model id.
LookupInitAll == AggIdle /\ TotIdle /\ ClarIdle /\ TipIdle /\ ServeIdle /\ LookupInit

LookupNext == CallLookupPricing

LookupSpec == LookupInitAll /\ [][LookupNext]_vars

\* One peakHour call on any hour table.
PeakInitAll == AggIdle /\ TotIdle /\ ClarIdle /\ TipIdle /\ ServeIdle /\ PeakInit

PeakNext == CallPeakHour

PeakSpec == PeakInitAll /\ [][PeakNext]_vars

\* One detectCorrectionType call on any text.
DetectInitAll == AggIdle /\ TotIdle /\ ClarIdle /\ TipIdle /\ ServeIdle /\ DetectInit

DetectNext == CallDetectCorrectionType

DetectSpec == DetectInitAll /\ [][DetectNext]_vars

\* ParseFile on each file of a list.
ParseInitAll == AggIdle /\ TotIdle /\ ClarIdle /\ TipIdle /\ ServeIdle /\ ParseInit

ParseNext == \E file \in ParseFiles : CallParseFile(file)

ParseSpec == ParseInitAll /\ [][ParseNext]_vars

\* The server with two handler goroutines.
ServeInitAll == AggIdle /\ TotIdle /\ ClarIdle /\ TipIdle /\ CallIdle /\ ServeInit

ServeSpec == ServeInitAll /\ [][ServeNext]_vars

\* One call of each tip selector on any report.
TipsInit == AggIdle /\ TotIdle /\ ClarIdle /\ TipInit /\ CallIdle /\ ServeIdle

TipsNext == TipNext

TipsSpec == TipsInit /\ [][TipsNext]_vars

(***************************************************************************)
(* Properties of the usage aggregator.                                     *)
(***************************************************************************)
RECURSIVE SumTokens(_)
\* Sum of TotalTokens over a sequence of UsageTotals.
SumTokens(ts) == IF ts = <<>> THEN 0 ELSE TotalTokens(Head(ts)) + SumTokens(Tail(ts))

ModelTokens(r) ==
    SumOver([m \in DOMAIN r.ModelSummaries |-> TotalTokens(r.ModelSummaries[m])],
            DOMAIN r.ModelSummaries)

\* C1: after Aggregate, Grand.TotalTokens() is the sum of TotalTokens() over the
\* entries of ModelSummaries.
C1_GrandIsSumOfModels ==
    pc = "done" => TotalTokens(report.Grand) = ModelTokens(report)

\* Two models, each with more than one record's worth of tokens in total.
C1_Witness ==
    /\ pc = "done"
    /\ Cardinality(DOMAIN report.ModelSummaries) = 2
    /\ report.Grand.MessageCount >= 2

DailyTokens(r) == SumTokens([k \in DOMAIN r.Daily |-> r.Daily[k].Totals])

\* C2: after Aggregate, Grand.TotalTokens() is the sum of Totals.TotalTokens()
\* over the Daily entries, with a day window and, without one, when the data
\* spans at most 30 dates.
C2_GrandIsSumOfDaily ==
    (pc = "done" /\ (opts.Days > 0 \/ Cardinality(DOMAIN dailyMap) <= MaxDailyDisplay))
        => TotalTokens(report.Grand) = DailyTokens(report)

\* The tokens of the sessions attached to project p, main conversation only.
MainTokensOf(p) ==
    SumSeq([k \in DOMAIN p.Sessions |-> TotalTokens(sessionMap[p.Sessions[k]].Totals)])

\* The same, subagent totals included.
CombinedTokensOf(p) ==
    SumSeq([k \in DOMAIN p.Sessions |-> CombinedTokens(sessionMap[p.Sessions[k]])])

\* Every session received records from files of one project slug only.
OneSlugPerSession == \A s \in DOMAIN sessFiles : Cardinality(sessFiles[s]) = 1

\* C3 as stated: every project's total tokens are the sum of the main totals
\* of its attached sessions.
C3_ProjectIsSumOfMainTotals ==
    pc = "done" =>
        \A k \in DOMAIN report.Projects :
            TotalTokens(report.Projects[k].Totals) = MainTokensOf(report.Projects[k])

\* C3 amended: every project's total tokens are the sum of the main plus
\* subagent totals of its attached sessions, when no session id occurs under
\* two project slugs.
C3_ProjectIsSumOfCombinedTotals ==
    (pc = "done" /\ OneSlugPerSession) =>
        \A k \in DOMAIN report.Projects :
            TotalTokens(report.Projects[k].Totals) = CombinedTokensOf(report.Projects[k])

\* A project whose session has main tokens and subagent tokens.
C3_Witness ==
    /\ pc = "done"
    /\ OneSlugPerSession
    /\ \E k \in DOMAIN report.Projects :
          /\ MainTokensOf(report.Projects[k]) > 0
          /\ CombinedTokensOf(report.Projects[k]) > MainTokensOf(report.Projects[k])

\* C5: with a day window N > 0 the Daily slice has N entries, one per
\* consecutive UTC date, oldest first, the last one today; a date without an
\* accumulated record has all-zero totals.
C5_DailyWindow ==
    (pc = "done" /\ opts.Days > 0) =>
        /\ Len(report.Daily) = opts.Days
        /\ \A k \in DOMAIN report.Daily :
              /\ report.Daily[k].Date = DateOf(now) - (opts.Days - k)
              /\ report.Daily[k].Date \notin DOMAIN dailyMap
                    => report.Daily[k].Totals = ZeroTotals
              /\ report.Daily[k].Date \in DOMAIN dailyMap
                    => report.Daily[k].Totals = dailyMap[report.Daily[k].Date]

\* A 2-day window over sparse data: one day empty, the other not.
C5_Witness ==
    /\ pc = "done"
    /\ opts.Days = 2
    /\ Len(report.Daily) = 2
    /\ \E j, k \in DOMAIN report.Daily :
          /\ report.Daily[j].Totals = ZeroTotals
          /\ report.Daily[k].Totals # ZeroTotals

(***************************************************************************)
(* Properties of UsageTotals.                                              *)
(***************************************************************************)
\* C4: after any sequence of Add calls with non-negative counts,
\* CacheEfficiency() is in [0,1], and it is exactly 0, with no division, when
\* input + cache-write + cache-read tokens is 0.
C4_CacheEfficiencyRange ==
    /\ CacheEfficiency(acc).den > 0
    /\ FracLe(FracZero, CacheEfficiency(acc))
    /\ FracLe(CacheEfficiency(acc), FracOne)
    /\ (acc.InputTokens + acc.CacheCreationInputTokens + acc.CacheReadInputTokens = 0)
          => CacheEfficiency(acc).num = 0

\* Output tokens only: the denominator is 0 after two Add calls.
C4_WitnessZeroDenom ==
    /\ nAdds >= 2
    /\ acc.OutputTokens > 0
    /\ acc.InputTokens + acc.CacheCreationInputTokens + acc.CacheReadInputTokens = 0

(***************************************************************************)
(* Properties of ComputeClarity.                                           *)
(***************************************************************************)
\* The sessions with at least one user message.
Qualifying == {s \in DOMAIN stateMap : Len(stateMap[s].userMessages) > 0}

\* The detector's verdict on every text a record can carry.
Detected == [t \in {extractText(r.Content) : r \in ClarRecords} |-> detectCorrectionType(t)]

\* C6: a session with exactly one user message has correctionRate 0 and
\* frontLoadRatio 1, whatever the text of that message.
C6_SingleMessageSession ==
    clarPc = "done" =>
        \A s \in DOMAIN stateMap :
            Len(stateMap[s].userMessages) = 1 =>
                /\ s \in DOMAIN allMetrics
                /\ allMetrics[s].corrRate = Frac(0, 1)
                /\ allMetrics[s].frontLoad = Frac(1, 1)

\* A session whose only user message is a walk-back.
C6_Witness ==
    /\ clarPc = "done"
    /\ \E s \in DOMAIN stateMap :
          /\ stateMap[s].userMessages = <<TextScope>>
          /\ Detected[TextScope].ok
          /\ s \in DOMAIN allMetrics

\* 100 * (0.40*fl + 0.35*(1 - cr) + 0.25*(1 - cl)), multiplied out.
ScoreFormula(fl, cr, cl) ==
    FracSub(FracAdd(Frac(60, 1), FracMul(Frac(40, 1), fl)),
            FracAdd(FracMul(Frac(35, 1), cr), FracMul(Frac(25, 1), cl)))

\* C7: every qualifying session's score is the formula of its own metrics,
\* frontLoad 0.8 with both rates 0 gives 92, and the Overall score is the
\* formula of the Overall mean metrics.
C7_ScoreFormula ==
    clarPc = "done" =>
        /\ \A s \in DOMAIN allMetrics :
              /\ FracEq(allMetrics[s].score,
                        ScoreFormula(allMetrics[s].frontLoad, allMetrics[s].corrRate,
                                     allMetrics[s].clarRate))
              /\ (/\ allMetrics[s].frontLoad = Frac(4, 5)
                  /\ allMetrics[s].corrRate = Frac(0, 1)
                  /\ allMetrics[s].clarRate = Frac(0, 1))
                    => allMetrics[s].score = Frac(92, 1)
        /\ clarity.Report.SessionCount >= 2 =>
              FracEq(clarity.Report.Overall.Score,
                     ScoreFormula(clarity.Report.Overall.FrontLoadRatio,
                                  clarity.Report.Overall.CorrectionRate,
                                  clarity.Report.Overall.ClarificationRate))

\* A session scoring 92 next to one with another front-load ratio and a
\* correction, in a full report.
C7_Witness ==
    /\ clarPc = "done"
    /\ clarity.Report.SessionCount = 2
    /\ \E s, t \in DOMAIN allMetrics :
          /\ allMetrics[s].frontLoad = Frac(4, 5)
          /\ allMetrics[s].score = Frac(92, 1)
          /\ allMetrics[t].frontLoad # allMetrics[s].frontLoad
          /\ allMetrics[t].corrRate # allMetrics[s].corrRate
          /\ clarity.Report.Overall.Score # allMetrics[s].score

\* The positions 2..n of msgs that the detector classifies as ctype.
CorrectionsAt(msgs, ctype) ==
    {i \in 2..Len(msgs) : Detected[msgs[i]].ok /\ Detected[msgs[i]].ctype = ctype}

\* C8: with user messages m1..mn, n >= 2, correctionCount counts the
\* corrections among m2..mn, the denominator is n - 1, correctionRate and each
\* detected type's rate are counts over n - 1; a scope correction, a format
\* correction and a clean message after m1 give 2, 2/3 and
\* {scope: 1/3, format: 1/3}.
C8_CorrectionCounting ==
    clarPc = "done" =>
        \A s \in DOMAIN stateMap :
            LET msgs == stateMap[s].userMessages
                n == Len(msgs)
                m == allMetrics[s]
            IN n >= 2 =>
                /\ stateMap[s].correctionCount =
                      Cardinality({i \in 2..n : Detected[msgs[i]].ok})
                /\ FracEq(m.corrRate, Frac(stateMap[s].correctionCount, n - 1))
                /\ DOMAIN m.correctionsByType =
                      {c \in Range(CorrectionTypes) : CorrectionsAt(msgs, c) # {}}
                /\ \A c \in DOMAIN m.correctionsByType :
                      FracEq(m.correctionsByType[c],
                             Frac(Cardinality(CorrectionsAt(msgs, c)), n - 1))
                /\ (n = 4 /\ SubSeq(msgs, 2, 4) = <<TextScope, TextFormat, TextClean>>)
                      => /\ stateMap[s].correctionCount = 2
                         /\ m.corrRate = Frac(2, 3)
                         /\ m.correctionsByType =
                               ("scope" :> Frac(1, 3)) @@ ("format" :> Frac(1, 3))

\* The four-message scenario, opened by a message that is itself a walk-back.
C8_Witness ==
    /\ clarPc = "done"
    /\ \E s \in DOMAIN stateMap :
          stateMap[s].userMessages = <<TextFormat, TextScope, TextFormat, TextClean>>

\* C9: with fewer than 2 qualifying sessions the report carries the number of
\* qualifying sessions and no weekly entries, hourly buckets, tips or delta.
C9_InsufficientData ==
    (clarPc = "done" /\ Cardinality(Qualifying) < 2) =>
        /\ clarity.Report.SessionCount = Cardinality(Qualifying)
        /\ clarity.Report.Weekly = <<>>
        /\ clarity.Report.HourlyBuckets = <<>>
        /\ clarity.Report.Tips = <<>>
        /\ ~clarity.Report.ScoreDelta.set

\* One qualifying session with a start time, next to a session without any
\* user message.
C9_Witness ==
    /\ clarPc = "done"
    /\ Cardinality(Qualifying) = 1
    /\ Cardinality(DOMAIN stateMap) = 2
    /\ \E s \in Qualifying : ~IsZeroTime(stateMap[s].startTime)
    /\ clarity.Report.SessionCount = 1

(***************************************************************************)
(* Properties of the tip selectors.                                        *)
(***************************************************************************)
\* C10: with correction rate < 0.10, clarification rate < 0.15 and front-load
\* ratio > 0.60, SelectCoachingTips and SelectCoachingTip return no tip.
C10_NoTipWhenAllGood ==
    (/\ FracLt(tipReport.Overall.CorrectionRate, Frac(1, 10))
     /\ FracLt(tipReport.Overall.ClarificationRate, Frac(3, 20))
     /\ FracLt(Frac(3, 5), tipReport.Overall.FrontLoadRatio))
        => /\ tipsOut.Called => tipsOut.Tips = <<>>
           /\ tipOut.Called => tipOut.Tips = <<>>

\* Both selectors called on a good report of enough sessions that has
\* corrections of every type on record.
C10_Witness ==
    /\ tipsOut.Called
    /\ tipOut.Called
    /\ tipReport.SessionCount >= 2
    /\ tipReport.Overall.CorrectionRate = Frac(1, 20)
    /\ tipReport.Overall.ClarificationRate = Frac(1, 10)
    /\ tipReport.Overall.FrontLoadRatio = Frac(7, 10)
    /\ Cardinality(DOMAIN tipReport.Overall.CorrectionsByType) = 3

(***************************************************************************)
(* Properties of pricing.                                                  *)
(***************************************************************************)
\* Some family of the table is a prefix of modelID.
SomeFamilyIsPrefix(modelID) ==
    \E i \in DOMAIN pricingTable : HasPrefix(modelID, pricingTable[i].Family)

\* The model ids of a breakdown that no family is a prefix of.
UnpricedIn(breakdown) == {m \in DOMAIN breakdown : ~SomeFamilyIsPrefix(m)}

\* The unrecognized-model insights of the report that name model m.
UnknownInsights(r, m) ==
    {k \in DOMAIN r.Insights :
        r.Insights[k].Kind = "unknown-model" /\ r.Insights[k].Arg = m}

\* C11: a model id that matches no pricing family costs exactly 0 in every
\* total while its tokens are counted, and the finished report has exactly
\* one unrecognized-model insight per such model id of ModelSummaries and
\* none for a priced model id.
C11_UnknownModelCostsNothing ==
    pc = "done" =>
        /\ \A m \in UnpricedIn(report.ModelSummaries) :
              /\ report.ModelSummaries[m].CostUSD = 0
              /\ report.ModelSummaries[m].MessageCount > 0
              /\ TotalTokens(report.ModelSummaries[m]) > 0
              /\ Cardinality(UnknownInsights(report, m)) = 1
        /\ \A m \in DOMAIN report.ModelSummaries \ UnpricedIn(report.ModelSummaries) :
              UnknownInsights(report, m) = {}
        /\ Cardinality({k \in DOMAIN report.Insights :
                            report.Insights[k].Kind = "unknown-model"})
              = Cardinality(UnpricedIn(report.ModelSummaries))
        /\ report.Grand.CostUSD =
              SumOver([m \in DOMAIN report.ModelSummaries |->
                          report.ModelSummaries[m].CostUSD],
                      DOMAIN report.ModelSummaries \ UnpricedIn(report.ModelSummaries))
        /\ \A k \in DOMAIN report.Projects :
              (DOMAIN report.Projects[k].ModelBreakdown
                    = UnpricedIn(report.Projects[k].ModelBreakdown))
                 => report.Projects[k].Totals.CostUSD = 0
        /\ \A k \in DOMAIN report.Sessions :
              (DOMAIN report.Sessions[k].ModelBreakdown
                    = UnpricedIn(report.Sessions[k].ModelBreakdown))
                 => report.Sessions[k].Totals.CostUSD = 0
        /\ \A k \in DOMAIN report.Daily :
              report.Daily[k].Totals.CostUSD <= report.Grand.CostUSD

\* The model "foo-bar-9000" next to a priced model that did cost something.
C11_Witness ==
    /\ pc = "done"
    /\ UnpricedIn(report.ModelSummaries) = {ModelFooBar}
    /\ ModelOpus \in DOMAIN report.ModelSummaries
    /\ report.Grand.CostUSD > 0
    /\ TotalTokens(report.ModelSummaries[ModelFooBar]) > 0

\* C12: LookupPricing(modelID) returns found = TRUE with the entry of the
\* longest family that is a prefix of modelID, and found = FALSE with zero
\* rates exactly when no family is a prefix of modelID.
C12_LongestPrefixMatch ==
    callRet.Called =>
        LET l == callRet.Ret
            matching == {i \in DOMAIN pricingTable :
                            HasPrefix(callArg, pricingTable[i].Family)}
        IN /\ l.found <=> matching # {}
           /\ l.found =>
                 \E i \in matching :
                    /\ l.pricing = pricingTable[i]
                    /\ \A j \in matching :
                          Len(pricingTable[j].Family) <= Len(pricingTable[i].Family)
           /\ ~l.found => l.pricing = ZeroPricing

\* A dated Sonnet id, resolved to the claude-3-5-sonnet family.
C12_Witness ==
    /\ callRet.Called
    /\ callArg = pricingTable[5].Family \o <<"-", "2", "0", "2", "5", "0", "1", "0", "1">>
    /\ callRet.Ret.found
    /\ callRet.Ret.pricing.Family = pricingTable[5].Family

(***************************************************************************)
(* More properties of ComputeClarity.                                      *)
(***************************************************************************)
\* 0 <= f <= 1
InUnit(f) == f.den > 0 /\ FracLe(Frac(0, 1), f) /\ FracLe(f, Frac(1, 1))

\* 0 <= f <= 100
InPercent(f) == f.den > 0 /\ FracLe(Frac(0, 1), f) /\ FracLe(f, Frac(100, 1))

\* C13: in every clarity result (each qualifying session, the Overall
\* metrics, every weekly entry, every hourly bucket with data) the three rates
\* and every per-type correction rate are in [0,1] and the score is in [0,100].
C13_RatesAndScoreInRange ==
    clarPc = "done" =>
        /\ \A s \in DOMAIN allMetrics :
              /\ InUnit(allMetrics[s].corrRate)
              /\ InUnit(allMetrics[s].clarRate)
              /\ InUnit(allMetrics[s].frontLoad)
              /\ InPercent(allMetrics[s].score)
              /\ \A c \in DOMAIN allMetrics[s].correctionsByType :
                    InUnit(allMetrics[s].correctionsByType[c])
        /\ LET o == clarity.Report.Overall
           IN /\ InUnit(o.CorrectionRate)
              /\ InUnit(o.ClarificationRate)
              /\ InUnit(o.FrontLoadRatio)
              /\ InPercent(o.Score)
              /\ \A c \in DOMAIN o.CorrectionsByType : InUnit(o.CorrectionsByType[c])
        /\ \A k \in DOMAIN clarity.Report.Weekly :
              LET w == clarity.Report.Weekly[k]
              IN /\ InUnit(w.CorrectionRate)
                 /\ InUnit(w.ClarificationRate)
                 /\ InUnit(w.FrontLoadRatio)
                 /\ InPercent(w.Score)
        /\ \A h \in DOMAIN clarity.Report.HourlyBuckets :
              clarity.Report.HourlyBuckets[h].SessionCount > 0
                 => InPercent(clarity.Report.HourlyBuckets[h].Score)

\* A full report over two sessions that start in the same hour of the same
\* week, one of them with a correction of a known type.
C13_Witness ==
    /\ clarPc = "done"
    /\ clarity.Report.SessionCount = 2
    /\ Len(clarity.Report.Weekly) = 1
    /\ clarity.Report.Weekly[1].SessionCount = 2
    /\ \E h \in DOMAIN clarity.Report.HourlyBuckets :
          clarity.Report.HourlyBuckets[h].SessionCount = 2
    /\ DOMAIN clarity.Report.Overall.CorrectionsByType # {}
    /\ FracLt(Frac(0, 1), clarity.Report.Overall.CorrectionRate)

(***************************************************************************)
(* More properties of the usage aggregator.                                *)
(***************************************************************************)
\* The sum of field f over the entries of a model breakdown.
BreakdownSum(breakdown, f) ==
    SumOver([m \in DOMAIN breakdown |-> breakdown[m][f]], DOMAIN breakdown)

\* A session's main Totals are the sum of its ModelBreakdown entries.
TotalsMatchBreakdown(sess) ==
    \A f \in {"InputTokens", "OutputTokens", "CacheCreationInputTokens",
               "CacheReadInputTokens", "CostUSD", "MessageCount"} :
        sess.Totals[f] = BreakdownSum(sess.ModelBreakdown, f)

\* What a step does to the sessions while a subagent file is read, and what
\* it does otherwise; a session the step creates starts from zero.
SubagentStepFrame ==
    \A s \in DOMAIN sessionMap' :
        LET isNew == s \notin DOMAIN sessionMap
            oldTotals == IF isNew THEN ZeroTotals ELSE sessionMap[s].Totals
            oldBreakdown == IF isNew THEN EmptyMap ELSE sessionMap[s].ModelBreakdown
            oldSubagent == IF isNew THEN ZeroTotals ELSE sessionMap[s].SubagentTotals
        IN IF cur.open /\ cur.Kind = KindSubagent
           THEN /\ sessionMap'[s].Totals = oldTotals
                /\ sessionMap'[s].ModelBreakdown = oldBreakdown
           ELSE sessionMap'[s].SubagentTotals = oldSubagent

\* C14: a record of a subagent file is added only to its session's
\* SubagentTotals, never to the session's main Totals or ModelBreakdown; a
\* record of a main session file never changes SubagentTotals; so a session's
\* main Totals are always the sum of its ModelBreakdown entries.
C14_SubagentKeptApart ==
    /\ [](\A s \in DOMAIN sessionMap : TotalsMatchBreakdown(sessionMap[s]))
    /\ [][SubagentStepFrame]_vars

\* A session that received a main record of one model and a subagent record
\* of another.
C14_Witness ==
    /\ pc = "done"
    /\ \E s \in DOMAIN sessionMap :
          /\ sessionMap[s].Totals.MessageCount = 1
          /\ sessionMap[s].SubagentTotals.MessageCount = 1
          /\ sessionMap[s].SubagentTotals.InputTokens # sessionMap[s].Totals.InputTokens
          /\ Cardinality(DOMAIN sessionMap[s].ModelBreakdown) = 1

\* The step reads `line`, ParseFile keeps it, and the project filter has not
\* rejected the file, at this record or before.
ReadsRecord(line) ==
    /\ nLines' = nLines + 1
    /\ ReadLine(line)
    /\ Kept(line, cur.seen)
    /\ ~cur'.skip

\* The step left every accumulator as it was.
NothingAccumulated == UNCHANGED <<report, projectMap, sessionMap, dailyMap>>

\* The step added the record to the grand total and gave it a model, a
\* project, a session and a day bucket.
RecordAccumulated(line) ==
    /\ report'.Grand.MessageCount = report.Grand.MessageCount + 1
    /\ TotalTokens(report'.Grand) = TotalTokens(report.Grand) + TotalTokens(line.Usage)
    /\ line.Model \in DOMAIN report'.ModelSummaries
    /\ cur.ProjectSlug \in DOMAIN projectMap'
    /\ line.SessionID \in DOMAIN sessionMap'
    /\ DateOf(line.Timestamp) \in DOMAIN dailyMap'

\* C15: with a day window N > 0, a record stamped before now - N days changes
\* no accumulator (Grand, model, project, session, day bucket, time ranges)
\* and creates no entry; every record of an accepted file stamped at or after
\* that instant is accumulated.
C15_DateFilter ==
    [][\A line \in UsageLines :
          (opts.Days > 0 /\ ReadsRecord(line)) =>
              IF line.Timestamp < now - 24 * opts.Days
              THEN NothingAccumulated
              ELSE RecordAccumulated(line)]_vars

\* A 1-day window over a file of two records that passed the project filter:
\* one was dropped, the other one, stamped exactly at the cutoff, was kept.
C15_Witness ==
    /\ opts.Days = 1
    /\ cur.open
    /\ ~cur.skip
    /\ cur.i = 2
    /\ report.Grand.MessageCount = 1
    /\ report.DateFrom = StartNow - 24

\* The folder name the project filter is stated to compare: that of the
\* working directory known for the slug once the record's own is captured, or
\* of the slug-derived path when none is known.
DerivedFolderName(scwd, slug) ==
    IF Get(scwd, slug, <<>>) = <<>> THEN Base(slugToPath(slug)) ELSE Base(scwd[slug])

\* C16: under a non-empty project filter a file is accepted or rejected as a
\* whole at its first record: rejected, with no record contributing, exactly
\* when neither its slug nor the derived folder name contains the filter,
\* case-insensitively; a record of a rejected file changes no accumulator.
C16_ProjectFilterByFirstRecord ==
    [][\A line \in UsageLines :
          (/\ opts.Project # <<>>
           /\ nLines' = nLines + 1
           /\ ReadLine(line)
           /\ Kept(line, cur.seen)) =>
              /\ cur.i = 0 =>
                    (cur'.skip <=>
                        (/\ ~containsCI(cur.ProjectSlug, opts.Project)
                         /\ ~containsCI(DerivedFolderName(slugCWD', cur.ProjectSlug),
                                        opts.Project)))
              /\ cur.i > 0 => cur'.skip = cur.skip
              /\ cur'.skip => NothingAccumulated]_vars

(***************************************************************************)
(* Properties of peakHour.                                                 *)
(***************************************************************************)
\* Every key of the table is an hour number and every count is positive.
ProperHourTable(hc) ==
    \A k \in DOMAIN hc : Atoi(k).ok /\ hc[k] > 0

\* The hours of the table that have its highest count.
BusiestHours(hc) ==
    {Atoi(k).val : k \in {x \in DOMAIN hc : \A y \in DOMAIN hc : hc[y] <= hc[x]}}

\* C17: peakHour returns the hour with the highest count, the lowest such
\* hour when several share it, whatever the iteration order of the table, and
\* -1 only for an empty table.
C17_PeakHourLowestOnTies ==
    (callRet.Called /\ ProperHourTable(callArg)) =>
        IF DOMAIN callArg = {} THEN callRet.Ret = 0 - 1
        ELSE /\ callRet.Ret \in BusiestHours(callArg)
             /\ \A h \in BusiestHours(callArg) : callRet.Ret <= h

(***************************************************************************)
(* Properties of detectCorrectionType.                                     *)
(***************************************************************************)
\* Some phrase of the list occurs in the lower-cased first 200 bytes of text.
OccursIn(text, phrases) ==
    LET head == SubSeq(text, 1, Min(Len(text), 200))
    IN \E k \in DOMAIN phrases : Contains(toLower(head), phrases[k])

\* C18: the detector reports scope when a walk-back and a scope phrase occur,
\* else format when a walk-back and a format phrase occur, else intent when an
\* intent phrase occurs, else intent when a walk-back phrase occurs, else no
\* correction; so a walk-back phrase always makes a correction and scope or
\* format is never reported without one.
C18_DetectorPriority ==
    callRet.Called =>
        LET wb == OccursIn(callArg, walkbackSignals)
            sc == OccursIn(callArg, scopePhrases)
            fm == OccursIn(callArg, formatPhrases)
            it == OccursIn(callArg, intentSignals)
            r == callRet.Ret
        IN /\ (wb /\ sc) => (r.ok /\ r.ctype = "scope")
           /\ (wb /\ ~sc /\ fm) => (r.ok /\ r.ctype = "format")
           /\ (~(wb /\ sc) /\ ~(wb /\ fm) /\ it) => (r.ok /\ r.ctype = "intent")
           /\ (wb /\ ~sc /\ ~fm /\ ~it) => (r.ok /\ r.ctype = "intent")
           /\ (~wb /\ ~it) => ~r.ok
           /\ wb => r.ok
           /\ (r.ok /\ r.ctype \in {"scope", "format"}) => wb

\* A text with a walk-back, a format and an intent phrase, reported as format.
C18_Witness ==
    /\ callRet.Called
    /\ OccursIn(callArg, walkbackSignals)
    /\ ~OccursIn(callArg, scopePhrases)
    /\ OccursIn(callArg, formatPhrases)
    /\ OccursIn(callArg, intentSignals)
    /\ callRet.Ret = [ctype |-> "format", ok |-> TRUE]

(***************************************************************************)
(* Properties of the clarification flag.                                   *)
(***************************************************************************)
\* Whether each text a record can carry asks a clarifying question.
Asks == [t \in {extractText(r.Content) : r \in ClarRecords} |-> hasClarificationSignal(t)]

\* The step reads rec, an assistant record that reaches its session's state.
ReadsReply(rec) ==
    /\ rec.Type = "assistant"
    /\ Tracked(rec, clarCutoff)
    /\ ClarRecordStep(rec)

\* The session's flag before and after a step; FALSE while it has no state.
FlagOf(sm, s) == s \in DOMAIN sm /\ sm[s].hadClarification

\* Every session's clarificationRate is 0 or 1, and 1 exactly when flagged.
RateIsFlag ==
    clarPc = "done" =>
        \A s \in DOMAIN allMetrics :
            allMetrics[s].clarRate = IF stateMap[s].hadClarification THEN FracOne ELSE FracZero

\* C19 as stated: the first assistant record of a session sets the flag to
\* whether its text asks a clarifying question, every later assistant record
\* leaves the flag alone, and the rate is 0 or 1.
C19_FirstAssistantRecordDecides ==
    /\ []RateIsFlag
    /\ [][\A rec \in ClarRecords :
            ReadsReply(rec) =>
                FlagOf(stateMap', rec.SessionID) =
                    IF rec.SessionID \in replied
                    THEN FlagOf(stateMap, rec.SessionID)
                    ELSE Asks[extractText(rec.Content)]]_vars

\* The session's recorded first reply text; empty while there is none.
ReplyTextOf(sm, s) == IF s \in DOMAIN sm THEN sm[s].firstAssistantText ELSE <<>>

\* C19, amended: the flag is decided by the first assistant record whose
\* extracted text is not empty, as whether that text asks a clarifying
\* question; records before it (assistant records without text included) and
\* after it leave the flag alone, and the rate is 0 or 1.
C19_FirstReplyTextDecides ==
    /\ []RateIsFlag
    /\ [](\A s \in DOMAIN stateMap :
            stateMap[s].hadClarification =
                (stateMap[s].firstAssistantText # <<>> /\ Asks[stateMap[s].firstAssistantText]))
    /\ [][\A s \in SessionIDs :
            /\ ReplyTextOf(stateMap, s) # <<>> =>
                   /\ ReplyTextOf(stateMap', s) = ReplyTextOf(stateMap, s)
                   /\ FlagOf(stateMap', s) = FlagOf(stateMap, s)
            /\ \A rec \in ClarRecords :
                   (rec.SessionID = s /\ ReplyTextOf(stateMap, s) = <<>> /\ ReadsReply(rec)) =>
                       ReplyTextOf(stateMap', s) = extractText(rec.Content)]_vars

\* A session whose first assistant record had no text, flagged by a later
\* one, with a rate of 1.
C19_Witness ==
    /\ clarPc = "done"
    /\ "s1" \in DOMAIN allMetrics
    /\ stateMap["s1"].startTime = TimeWeekAgo
    /\ stateMap["s1"].hadClarification
    /\ allMetrics["s1"].clarRate = FracOne
    /\ Len(stateMap["s1"].userMessages) = 1
    /\ nClarRecs = 3

(***************************************************************************)
(* Properties of the weakest metric.                                       *)
(***************************************************************************)
\* The metrics in their order of precedence.
MetricOrder == <<"correction_rate", "clarification_rate", "front_load_ratio">>

\* The gap-to-good of metric k: 0 when the metric is on the good side of its
\* threshold, otherwise its distance from the threshold, which for the
\* front-load ratio is taken as a share of the threshold.
GapToGood(o, k) ==
    IF k = 1
    THEN IF FracLe(o.CorrectionRate, Frac(1, 10)) THEN FracZero
         ELSE FracNorm(FracSub(o.CorrectionRate, Frac(1, 10)))
    ELSE IF k = 2
    THEN IF FracLe(o.ClarificationRate, Frac(3, 20)) THEN FracZero
         ELSE FracNorm(FracSub(o.ClarificationRate, Frac(3, 20)))
    ELSE IF FracLe(Frac(3, 5), o.FrontLoadRatio) THEN FracZero
         ELSE FracNorm(FracMul(FracSub(Frac(3, 5), o.FrontLoadRatio), Frac(5, 3)))

\* The first metric in the order of precedence that no metric has a larger
\* gap than.
Weakest(o) ==
    LET largest(k) == \A j \in DOMAIN MetricOrder : FracLe(GapToGood(o, j), GapToGood(o, k))
        k == CHOOSE i \in DOMAIN MetricOrder :
                 largest(i) /\ \A j \in 1..(i - 1) : ~largest(j)
    IN MetricOrder[k]

\* The level of a metric of the report.
LevelOf(o, metric) ==
    IF metric = "correction_rate" THEN CorrectionRateInsight(o.CorrectionRate)
    ELSE IF metric = "clarification_rate" THEN ClarificationRateInsight(o.ClarificationRate)
    ELSE FrontLoadRatioInsight(o.FrontLoadRatio)

\* The report has enough sessions and not all three metrics are good.
NeedsTip == tipReport.SessionCount >= 2 /\ ~AllGood(tipReport.Overall)

\* C20: when not all three metrics are good, every tip either selector returns
\* is about the metric with the largest gap-to-good, correction before
\* clarification before front-load on equal gaps, and a tip is returned
\* exactly when that metric is not itself good.
C20_WeakestMetricHasLargestGap ==
    NeedsTip =>
        LET o == tipReport.Overall
            w == Weakest(o)
        IN /\ tipsOut.Called =>
                 /\ \A i \in DOMAIN tipsOut.Tips : tipsOut.Tips[i].Metric = w
                 /\ (tipsOut.Tips # <<>>) = (LevelOf(o, w) # "good")
           /\ tipOut.Called =>
                 /\ \A i \in DOMAIN tipOut.Tips : tipOut.Tips[i].Metric = w
                 /\ (tipOut.Tips # <<>>) = (LevelOf(o, w) # "good")

\* The three gaps are equal and positive, and both selectors return
\* correction tips.
C20_Witness ==
    /\ NeedsTip
    /\ tipsOut.Called
    /\ tipOut.Called
    /\ GapToGood(tipReport.Overall, 1) = Frac(1, 5)
    /\ FracLe(GapToGood(tipReport.Overall, 1), GapToGood(tipReport.Overall, 2))
    /\ FracLe(GapToGood(tipReport.Overall, 1), GapToGood(tipReport.Overall, 3))
    /\ tipsOut.Tips # <<>>
    /\ tipOut.Tips # <<>>
    /\ tipOut.Tips[1].Metric = "correction_rate"

(***************************************************************************)
(* Properties of the tips returned.                                        *)
(***************************************************************************)
\* The correction types with a non-zero overall rate, in the order scope,
\* format, intent.
DetectedTypes(o) ==
    LET detected(t) == t \in DOMAIN o.CorrectionsByType /\ o.CorrectionsByType[t].num # 0
    IN SelectSeq(<<"scope", "format", "intent">>, detected)

\* C21: when correction rate is the weakest metric and some type has a
\* non-zero rate, SelectCoachingTips returns one tip per such type, in the
\* order scope, format, intent, each from the bank correction_<type>_<level>
\* and with that type as SubMetric; in every other case that gives tips it
\* returns one tip from the bank <weakest metric>_<level>.
C21_OneTipPerDetectedType ==
    (NeedsTip /\ tipsOut.Called /\ tipsOut.Tips # <<>>) =>
        LET o == tipReport.Overall
            w == Weakest(o)
            lvl == LevelOf(o, w)
            types == DetectedTypes(o)
            tips == tipsOut.Tips
        IN IF w = "correction_rate" /\ types # <<>>
           THEN /\ Len(tips) = Len(types)
                /\ \A i \in DOMAIN tips :
                       /\ tips[i].SubMetric = types[i]
                       /\ tips[i] \in Range(tipBank["correction_" \o types[i] \o "_" \o lvl])
           ELSE /\ Len(tips) = 1
                /\ tips[1] \in Range(tipBank[w \o "_" \o lvl])

\* Correction rate is weakest, format has rate 0 and intent has not, and the
\* one tip returned is an intent tip.
C21_Witness ==
    /\ NeedsTip
    /\ tipsOut.Called
    /\ Weakest(tipReport.Overall) = "correction_rate"
    /\ DOMAIN tipReport.Overall.CorrectionsByType = {"format", "intent"}
    /\ Len(tipsOut.Tips) = 1
    /\ tipsOut.Tips[1].SubMetric = "intent"

\* The tip is about a metric at ok or warn level and carries that level.
TipFitsLevel(o, tip) ==
    /\ LevelOf(o, tip.Metric) \in {"ok", "warn"}
    /\ tip.Level = LevelOf(o, tip.Metric)

\* C22: every tip a selector returns names a metric whose overall value is at
\* ok or warn level and has that level as its Level; a good metric gets no
\* tip, even when it is the weakest with a gap of 0.
C22_NoTipForGoodMetric ==
    /\ tipsOut.Called =>
          \A i \in DOMAIN tipsOut.Tips : TipFitsLevel(tipReport.Overall, tipsOut.Tips[i])
    /\ tipOut.Called =>
          \A i \in DOMAIN tipOut.Tips : TipFitsLevel(tipReport.Overall, tipOut.Tips[i])

\* Not all metrics are good, all gaps are 0, the weakest metric is the good
\* correction rate, and no tip is returned.
C22_Witness ==
    /\ NeedsTip
    /\ tipsOut.Called
    /\ tipOut.Called
    /\ Weakest(tipReport.Overall) = "correction_rate"
    /\ LevelOf(tipReport.Overall, "correction_rate") = "good"
    /\ LevelOf(tipReport.Overall, "clarification_rate") = "ok"
    /\ tipsOut.Tips = <<>>
    /\ tipOut.Tips = <<>>

(***************************************************************************)
(* Properties of the session time range.                                   *)
(***************************************************************************)
\* The non-zero timestamps of the records accumulated into session s.
StampsOf(s) == {t \in Get(sessTimes, s, {}) : ~IsZeroTime(t)}

\* The range a session must show: zero times while it has no non-zero
\* timestamp, otherwise the least and the greatest of them.
RangeCovers(sess, stamps) ==
    IF stamps = {}
    THEN IsZeroTime(sess.StartTime) /\ IsZeroTime(sess.EndTime)
    ELSE /\ sess.StartTime \in stamps
         /\ sess.EndTime \in stamps
         /\ \A t \in stamps : sess.StartTime <= t /\ t <= sess.EndTime

\* C23: after any sequence of accumulated records every session has StartTime
\* the minimum and EndTime the maximum of the non-zero timestamps of its
\* accumulated records, in whatever order they came; zero timestamps change
\* nothing and StartTime <= EndTime; the finished report's sessions show the
\* same range.
C23_SessionRangeIsMinMax ==
    /\ \A s \in DOMAIN sessionMap :
          /\ RangeCovers(sessionMap[s], StampsOf(s))
          /\ sessionMap[s].StartTime <= sessionMap[s].EndTime
    /\ pc = "done" =>
          \A i \in DOMAIN report.Sessions :
              RangeCovers(report.Sessions[i], StampsOf(report.Sessions[i].SessionID))

\* A finished report with a session of two records at different times.
C23_Witness ==
    /\ pc = "done"
    /\ \E i \in DOMAIN report.Sessions :
          /\ Cardinality(StampsOf(report.Sessions[i].SessionID)) = 2
          /\ report.Sessions[i].StartTime < report.Sessions[i].EndTime

(***************************************************************************)
(* Properties of the clarity session start time.                           *)
(***************************************************************************)
\* The step reads rec, a record with a non-zero timestamp that reaches its
\* session's state.
ReadsTimed(rec) ==
    /\ ~IsZeroTime(rec.Timestamp)
    /\ Tracked(rec, clarCutoff)
    /\ ClarRecordStep(rec)

\* C24: a session's start time is the earliest non-zero timestamp among its
\* records that passed the cutoff, in whatever order they are read; so once
\* such a record is read the start time is set and is not later than it.
C24_StartIsEarliestTimestamp ==
    [][\A rec \in ClarRecords :
          ReadsTimed(rec) =>
              /\ ~IsZeroTime(stateMap'[rec.SessionID].startTime)
              /\ stateMap'[rec.SessionID].startTime <= rec.Timestamp]_vars

(***************************************************************************)
(* Properties of the best and worst hour.                                  *)
(***************************************************************************)
\* The hours of the report with at least one session.
HoursWithSessions(r) ==
    {h \in DOMAIN r.HourlyBuckets : r.HourlyBuckets[h].SessionCount > 0}

\* Best and worst hour are hours with sessions, with the highest and lowest
\* mean score, when two or more hours have sessions, and -1 otherwise; an
\* hour without sessions has score -1.
HoursExposedRight(r) ==
    LET data == HoursWithSessions(r)
        score(h) == r.HourlyBuckets[h].Score
    IN /\ IF Cardinality(data) >= 2
          THEN /\ r.BestHour \in data
               /\ r.WorstHour \in data
               /\ \A h \in data : /\ FracLe(score(h), score(r.BestHour))
                                   /\ FracLe(score(r.WorstHour), score(h))
          ELSE /\ r.BestHour = 0 - 1
               /\ r.WorstHour = 0 - 1
       /\ \A h \in DOMAIN r.HourlyBuckets :
             IF h \in data THEN FracLe(FracZero, score(h)) ELSE score(h) = Frac(0 - 1, 1)

\* The reports built from two or more qualifying sessions expose the hours
\* rightly.
FullReportHours ==
    (clarPc = "done" /\ clarity.Report.SessionCount >= 2) => HoursExposedRight(clarity.Report)

\* C25: every report ComputeClarity returns exposes best and worst hour only
\* when at least 2 hours of the day have a session each, as the hours of
\* highest and lowest mean score, and has both at -1 otherwise; an hour
\* without sessions has score -1.
C25_BestWorstHourExposure ==
    clarPc = "done" => HoursExposedRight(clarity.Report)

(***************************************************************************)
(* Properties of ParseFile.                                                *)
(***************************************************************************)
\* The line decodes to an assistant record with non-zero usage.
Eligible(line) ==
    line.kind = "record" /\ line.Type = "assistant" /\ ~IsZeroUsage(line.Usage)

\* The positions of the lines ParseFile is to return: eligible lines that
\* have no UUID or are the first eligible line with their UUID.
ReturnedPositions(lines) ==
    LET first(i) ==
            \/ lines[i].UUID = ""
            \/ \A j \in 1..(i - 1) : ~(Eligible(lines[j]) /\ lines[j].UUID = lines[i].UUID)
        wanted(i) == Eligible(lines[i]) /\ first(i)
    IN SelectSeq([i \in 1..Len(lines) |-> i], wanted)

\* The lines at those positions, in file order.
ReturnedLines(lines) ==
    [k \in 1..Len(ReturnedPositions(lines)) |-> lines[ReturnedPositions(lines)[k]]]

\* The lines that do not decode.
BadPositions(lines) == {i \in 1..Len(lines) : lines[i].kind = "bad"}

\* What the last ParseFile call returned fits the file it was given.
ParseResultFits ==
    callRet.Called =>
        IF callArg.readable
        THEN /\ callRet.Records = ReturnedLines(callArg.lines)
             /\ callRet.Errs = Cardinality(BadPositions(callArg.lines))
                                + IF callArg.scanErr THEN 1 ELSE 0
        ELSE callRet.Records = <<>> /\ callRet.Errs = 1

\* C26: ParseFile returns, in file order, the decodable assistant lines with
\* non-zero usage, only the first of each non-empty UUID; every line that does
\* not decode adds 1 to its error count and the lines after it are still
\* processed; Aggregate's ParseErrors grows by each file's count.
C26_ParseFileKeepsAndCounts ==
    /\ []ParseResultFits
    /\ [][callRet'.ParseErrors = callRet.ParseErrors + callRet'.Errs]_vars

\* A second file of three lines: one that does not decode, then two
\* different assistant records with the same UUID, of which the first is
\* returned.
C26_Witness ==
    /\ callRet.Called
    /\ callRet.Files = 2
    /\ callArg.readable
    /\ Len(callArg.lines) = 3
    /\ callArg.lines[1].kind = "bad"
    /\ Eligible(callArg.lines[2])
    /\ Eligible(callArg.lines[3])
    /\ callArg.lines[2] # callArg.lines[3]
    /\ callArg.lines[2].UUID = "u1"
    /\ callArg.lines[3].UUID = "u1"
    /\ callRet.Records = <<callArg.lines[2]>>
    /\ callRet.Errs = 1
    /\ callRet.ParseErrors = 3

(***************************************************************************)
(* Properties of the correction counts.                                    *)
(***************************************************************************)
\* The count of corrections is the sum of the per-type counts and at most
\* the number of user messages after the first.
CountsAgree(st) ==
    /\ st.correctionCount = SumOver(st.correctionCounts, DOMAIN st.correctionCounts)
    /\ st.correctionCount <= Max(Len(st.userMessages) - 1, 0)

\* C27: in every session's clarity state correctionCount is the sum of the
\* per-type counts and at most max(user messages - 1, 0); so the rate
\* correctionCount / denom is at most 1 and is the session's correction rate
\* uncapped, and the Overall per-type rates add up to the Overall correction
\* rate.
C27_CorrectionCountsAddUp ==
    /\ \A s \in DOMAIN stateMap : CountsAgree(stateMap[s])
    /\ clarPc = "done" =>
          /\ \A s \in DOMAIN allMetrics :
                LET raw == Frac(stateMap[s].correctionCount,
                                Max(Len(stateMap[s].userMessages) - 1, 1))
                IN /\ FracLe(raw, FracOne)
                   /\ FracEq(allMetrics[s].corrRate, raw)
          /\ LET o == clarity.Report.Overall
             IN FracEq(FracSumOver(o.CorrectionsByType, DOMAIN o.CorrectionsByType),
                       o.CorrectionRate)

\* A full report whose Overall breakdown has two types with a non-zero rate.
C27_Witness ==
    /\ clarPc = "done"
    /\ clarity.Report.SessionCount = 2
    /\ Cardinality({c \in DOMAIN clarity.Report.Overall.CorrectionsByType :
                       clarity.Report.Overall.CorrectionsByType[c].num # 0}) = 2

(***************************************************************************)
(* Properties of the project filter across files.                          *)
(***************************************************************************)
\* C28: under a non-empty project filter the files accepted do not depend on
\* the order of the file list, so the files of one project slug are all
\* accepted or all rejected.
C28_SameSlugSameFate ==
    \A slug \in DOMAIN fileFates : Cardinality(fileFates[slug]) = 1

(***************************************************************************)
(* Properties of when tips are returned.                                   *)
(***************************************************************************)
\* Some overall metric is not at good level.
SomeMetricNotGood(o) ==
    \/ FracLe(Frac(1, 10), o.CorrectionRate)
    \/ FracLe(Frac(3, 20), o.ClarificationRate)
    \/ FracLe(o.FrontLoadRatio, Frac(3, 5))

\* C29: for a report of 2 or more sessions SelectCoachingTips returns at
\* least one tip exactly when correction rate >= 0.10, clarification rate >=
\* 0.15 or front-load ratio <= 0.60, values at a threshold included.
C29_TipsIffSomeMetricNotGood ==
    (tipsOut.Called /\ tipReport.SessionCount >= 2) =>
        ((tipsOut.Tips # <<>>) <=> SomeMetricNotGood(tipReport.Overall))

(***************************************************************************)
(* Properties of concurrent /api/report requests.                          *)
(***************************************************************************)
\* The response of handler h is computed from the file list and the stats
\* cache that h read itself.
OwnReadsOnly(h) ==
    handlers[h].response.Sent =>
        /\ handlers[h].response.Files = handlers[h].files
        /\ handlers[h].response.PeakHour \in PeakOf(handlers[h].sc)

\* C30: with requests handled concurrently every response is computed from
\* its own handler's file list and stats cache, and between a handler's
\* stats-cache store and its Aggregate call no step changes the options the
\* call reads.
C30_RequestsDoNotShareOptions ==
    /\ [](\A h \in DOMAIN handlers : OwnReadsOnly(h))
    /\ [][\A h \in DOMAIN handlers : handlers[h].pc = "stored" => srvOpts' = srvOpts]_vars
====
